---- MODULE Spec2Model ----
(***************************************************************************)
(* Model of the Ottawa RAG pipeline core: OttawaRAGPipeline                *)
(* (src/src/rag_pipeline.py), LLMInterface (src/src/llm_interface.py) and  *)
(* VectorStore (src/src/vector_store.py).                                  *)
(*                                                                         *)
(* Conventions.  A Python str is Str(t) with t a tuple of text pieces, a   *)
(* piece being a character or an opaque run of text; None is PyNone.  A    *)
(* similarity is an integer number of hundredths (0.1 is 10).  A float     *)
(* produced by np.mean is the pair <<sum, count>>; the literal 0.0 is      *)
(* <<0, 1>>.  A call that can raise returns [raised |-> BOOLEAN, ...].     *)
(***************************************************************************)
EXTENDS Integers, Sequences, FiniteSets, TLC

VARIABLES
    documents,          \* OttawaRAGPipeline.documents
    chunks,             \* OttawaRAGPipeline.chunks
    is_initialized,     \* OttawaRAGPipeline.is_initialized
    client,             \* LLMInterface.client: "Groq" or "None"
    total_requests,     \* LLMInterface.total_requests
    current_collection, \* VectorStore.current_collection: "None" or a name
    db,                 \* the persistent index: collection name -> stored ids
    op,                 \* the public method that just returned, or "idle"
    args,               \* its arguments
    ret,                \* its return value
    trace,              \* ghost: what the call did on its way
    ready,              \* ghost: initialize_vector_database has returned True
    store_metric,       \* VectorStore.distance_metric
    model,              \* EmbeddingManager.model_name, .embedding_dimension
    cache,              \* the files of EmbeddingManager.cache_dir
    splitter,           \* chunk_size, chunk_overlap, min_chunk_length
    frame               \* local variables of the calls in progress

vars == <<documents, chunks, is_initialized, client, total_requests,
          current_collection, db, op, args, ret, trace, ready,
          store_metric, model, cache, splitter, frame>>

\* the objects the pipeline's own methods leave alone
componentVars == <<store_metric, model, cache, splitter, frame>>

(***************************************************************************)
(* Bounds                                                                  *)
(***************************************************************************)
MaxRetriesArg == 3
MaxRequests == 1
MaxResults == 3
MaxChunks == 3

(***************************************************************************)
(* Python values                                                           *)
(***************************************************************************)
PyNone == [type |-> "NoneType"]
Str(t) == [type |-> "str", s |-> t]
PyList(seq) == [type |-> "list", v |-> seq]
IsStr(v) == v.type = "str"

Whitespace == {" ", "\n", "\t"}

RECURSIVE LStrip(_)
LStrip(t) == IF t # <<>> /\ Head(t) \in Whitespace THEN LStrip(Tail(t)) ELSE t

RECURSIVE RStrip(_)
RStrip(t) ==
    IF t # <<>> /\ t[Len(t)] \in Whitespace
    THEN RStrip(SubSeq(t, 1, Len(t) - 1))
    ELSE t

\* str.strip()
Strip(t) == RStrip(LStrip(t))

UpperToLower == [c \in {"F", "I", "R", "E", "P", "T"} |->
                   CASE c = "F" -> "f" [] c = "I" -> "i" [] c = "R" -> "r"
                     [] c = "E" -> "e" [] c = "P" -> "p" [] c = "T" -> "t"]

\* str.lower()
Lower(t) == [i \in 1..Len(t) |->
               IF t[i] \in DOMAIN UpperToLower THEN UpperToLower[t[i]] ELSE t[i]]

\* sub in t
Contains(t, sub) ==
    \E i \in 0..(Len(t) - Len(sub)) :
        \A j \in 1..Len(sub) : t[i + j] = sub[j]

(***************************************************************************)
(* LLMInterface                                                            *)
(***************************************************************************)
max_retries_default == 3

Apology == "I apologize, but I'm experiencing technical difficulties. "

GenericFallback == "I apologize, but I'm unable to process your request at the moment. Please visit ottawa.ca or call 311 for assistance with Ottawa city services."

\* the fallback table, in insertion order
fallback_responses == <<
    [keyword |-> <<"m","a","r","r","i","a","g","e">>,
     response |-> "For marriage license information, please visit ottawa.ca or call 311."],
    [keyword |-> <<"p","a","r","k","i","n","g">>,
     response |-> "For parking information and regulations, please visit ottawa.ca or call 311."],
    [keyword |-> <<"g","a","r","b","a","g","e">>,
     response |-> "For waste collection information, please visit ottawa.ca or call 311."],
    [keyword |-> <<"f","i","r","e">>,
     response |-> "For fire safety information, please visit ottawa.ca or contact Ottawa Fire Services."],
    [keyword |-> <<"b","u","s","i","n","e","s","s">>,
     response |-> "For business licensing information, please visit ottawa.ca or call 311."] >>

RECURSIVE FallbackFrom(_, _)
FallbackFrom(i, query_lower) ==
    IF i > Len(fallback_responses)
    THEN Str(<<GenericFallback>>)
    ELSE IF Contains(query_lower, fallback_responses[i].keyword)
         THEN Str(<<Apology, fallback_responses[i].response>>)
         ELSE FallbackFrom(i + 1, query_lower)

_get_fallback_response(query) == FallbackFrom(1, Lower(query))

\* The texts the fallback can produce.
FallbackTexts ==
    {Str(<<GenericFallback>>)} \cup
    {Str(<<Apology, fallback_responses[i].response>>) :
        i \in 1..Len(fallback_responses)}

\* What one call of client.chat.completions.create does.
BackendOutcomes ==
    { [kind |-> "raise"],
      [kind |-> "completion", choices |-> 0, content |-> PyNone],
      [kind |-> "completion", choices |-> 1, content |-> PyNone],
      [kind |-> "completion", choices |-> 1, content |-> Str(<<>>)],
      [kind |-> "completion", choices |-> 1,
       content |-> Str(<<" ", "Answer from context.", "\n">>)] }

\* One attempt raises inside the inner try: the call raises, choices[0]
\* raises IndexError, or None.strip() raises AttributeError.
AttemptFails(o) ==
    \/ o.kind = "raise"
    \/ o.choices = 0
    \/ ~IsStr(o.content)

\* Variant of the retry loop that gives up on the first failed attempt.
RetryLoop_no_retry(attempt, max_retries, backend, query, sofar) ==
    IF attempt >= max_retries
    THEN [sofar EXCEPT !.value = PyNone]
    ELSE LET o == backend[attempt + 1]
             called0 == [sofar EXCEPT !.calls = @ + 1]
             called == IF o.kind = "completion" /\ o.choices > 0
                       THEN [called0 EXCEPT !.stats = @ + 1]
                       ELSE called0
         IN IF ~AttemptFails(o)
            THEN [called EXCEPT !.value = Str(Strip(o.content.s)),
                                !.completed = @ + 1]
            ELSE [called EXCEPT !.value = _get_fallback_response(query)]

\* The retry loop of generate_response from iteration `attempt` on.
\* backend[i] is what the i-th backend call of this request does.
RECURSIVE RetryLoop(_, _, _, _, _)
RetryLoop(attempt, max_retries, backend, query, sofar) ==
    IF attempt >= max_retries
    THEN [sofar EXCEPT !.value = PyNone]
    ELSE LET o == backend[attempt + 1]
             called0 == [sofar EXCEPT !.calls = @ + 1]
             \* _update_statistics runs once choices[0].message.content was read
             called == IF o.kind = "completion" /\ o.choices > 0
                       THEN [called0 EXCEPT !.stats = @ + 1]
                       ELSE called0
         IN IF ~AttemptFails(o)
            THEN [called EXCEPT !.value = Str(Strip(o.content.s)),
                                !.completed = @ + 1]
            ELSE IF attempt = max_retries - 1
                 THEN [called EXCEPT !.value = _get_fallback_response(query)]
                 ELSE RetryLoop(attempt + 1, max_retries, backend, query,
                                [called EXCEPT !.sleeps = Append(@, 2 ^ attempt)])

NoCalls == [value |-> PyNone, calls |-> 0, completed |-> 0, stats |-> 0,
            sleeps |-> <<>>]

\* LLMInterface.generate_response; prompt_ok is FALSE when
\* custom_prompt.format raises.
LLM_generate_response(cl, query, prompt_ok, max_retries, backend) ==
    IF cl = "None"
    THEN [NoCalls EXCEPT !.value = _get_fallback_response(query)]
    ELSE IF ~prompt_ok
         THEN [NoCalls EXCEPT !.value = _get_fallback_response(query)]
         ELSE RetryLoop(0, max_retries, backend, query, NoCalls)

(***************************************************************************)
(* Dictionaries                                                            *)
(***************************************************************************)
EmptyDict == [k \in {} |-> 0]

\* dict.get(key, default)
Get(d, key, default) == IF key \in DOMAIN d THEN d[key] ELSE default

\* dict.update(other)
Update(d, other) ==
    [k \in DOMAIN d \cup DOMAIN other |->
        IF k \in DOMAIN other THEN other[k] ELSE d[k]]

Min(a, b) == IF a <= b THEN a ELSE b

RECURSIVE SumSeq(_)
SumSeq(s) == IF s = <<>> THEN 0 ELSE Head(s) + SumSeq(Tail(s))

(***************************************************************************)
(* VectorStore                                                             *)
(***************************************************************************)
distance_metric == "cosine"
CollectionName == "ottawa_complete"

\* VectorStore.create_collection(name) with overwrite=False.  create_ok and
\* get_ok tell whether the index accepts client.create_collection and
\* client.get_collection; creating an existing collection always raises and
\* so does getting a missing one.
create_collection(coll, store, name, create_ok, get_ok) ==
    IF create_ok /\ name \notin DOMAIN store
    THEN [value |-> TRUE, current_collection |-> name,
          db |-> store @@ (name :> {})]
    ELSE IF get_ok /\ name \in DOMAIN store
         THEN [value |-> TRUE, current_collection |-> name, db |-> store]
         ELSE [value |-> FALSE, current_collection |-> coll, db |-> store]

\* The batch loop of add_documents from 0-based offset i on.  fail_at is the
\* number of the batch whose current_collection.add raises (0: none does).
RECURSIVE AddBatches(_, _, _, _, _)
AddBatches(i, ids, bsize, fail_at, written) ==
    IF i >= Len(ids)
    THEN [value |-> TRUE, written |-> written]
    ELSE LET end_idx == Min(i + bsize, Len(ids))
         IN IF (i \div bsize) + 1 = fail_at
            THEN [value |-> FALSE, written |-> written]
            ELSE AddBatches(i + bsize, ids, bsize, fail_at,
                            written \o SubSeq(ids, i + 1, end_idx))

\* Variant that compares the lengths of ids and documents only.
add_documents_ids_docs_only(coll, ids, docs, embeddings, metadatas, bsize, fail_at) ==
    IF coll = "None"
    THEN [value |-> FALSE, written |-> <<>>]
    ELSE IF ~(Len(ids) = Len(docs))
         THEN [value |-> FALSE, written |-> <<>>]
         ELSE AddBatches(0, ids, bsize, fail_at, <<>>)

\* VectorStore.add_documents
add_documents(coll, ids, docs, embeddings, metadatas, bsize, fail_at) ==
    IF coll = "None"
    THEN [value |-> FALSE, written |-> <<>>]
    ELSE IF ~(Len(ids) = Len(docs) /\ Len(docs) = Len(embeddings)
              /\ Len(embeddings) = Len(metadatas))
         THEN [value |-> FALSE, written |-> <<>>]
         ELSE AddBatches(0, ids, bsize, fail_at, <<>>)

\* One formatted result of VectorStore.search
FormatResult(raw, i, metric) ==
    LET result == [document |-> raw.documents[i],
                   metadata |-> IF i <= Len(raw.metadatas)
                                THEN raw.metadatas[i] ELSE EmptyDict]
    IN IF i <= Len(raw.distances)
       THEN result @@ [similarity |-> IF metric = "cosine"
                                      THEN 100 - raw.distances[i]
                                      ELSE raw.distances[i],
                       distance |-> raw.distances[i]]
       ELSE result

\* VectorStore.search; raw is what current_collection.query does.
VectorStore_search(coll, metric, raw) ==
    IF coll = "None"
    THEN [value |-> <<>>, index_calls |-> 0, failed |-> TRUE]
    ELSE IF raw.kind # "results"
         THEN [value |-> <<>>, index_calls |-> 1, failed |-> TRUE]
         ELSE [value |-> [i \in 1..Len(raw.documents) |->
                             FormatResult(raw, i, metric)],
               index_calls |-> 1, failed |-> FALSE]

(***************************************************************************)
(* The corpus file and the environment of one call                         *)
(***************************************************************************)
Document(i) == [url |-> ToString(i), source_file |-> ToString(i)]

Chunk(i) == [id |-> i, content |-> i, url |-> ToString(i),
             source_file |-> ToString(i), chunk_index |-> i - 1]

GoodChunks(n) == [i \in 1..n |-> Chunk(i)]

\* the last chunk record lacks its url
BrokenChunks == <<Chunk(1), [id |-> 2, content |-> 2]>>

\* The JSON records a corpus file can hold; the keys documents and chunks,
\* when present, hold arrays.
CorpusRecords ==
    { EmptyDict,
      [documents |-> <<Document(1)>>],
      [chunks |-> GoodChunks(1)],
      [documents |-> <<Document(1)>>, chunks |-> <<>>],
      [documents |-> <<Document(1)>>, chunks |-> BrokenChunks],
      [documents |-> <<Document(1)>>, chunks |-> GoodChunks(MaxChunks)] }

\* What open() and json.load() find at data_path.
CorpusFiles ==
    { [kind |-> "absent"], [kind |-> "bad_json"], [kind |-> "not_record"] }
    \cup { [kind |-> "record", data |-> d] : d \in CorpusRecords }

Q_fire == <<"F", "I", "R", "E", "?">>
Q_tax == <<"t", "a", "x">>
Q_business_parking ==
    <<"b","u","s","i","n","e","s","s"," ","P","a","r","k","i","n","g">>

Queries == {Q_fire, Q_tax}
LLMQueries == Queries \cup {Q_business_parking}

\* Cosine distance, in hundredths, between a query and the stored chunk i.
Distance(q, i) ==
    IF q = Q_fire
    THEN CASE i = 1 -> 95 [] i = 2 -> 70 [] i = 3 -> 40 [] OTHER -> 90
    ELSE CASE i = 1 -> 90 [] i = 2 -> 110 [] i = 3 -> 0 [] OTHER -> 60

\* sequences without repetition over S, of length at most n
DistinctSeqs(S, n) ==
    { s \in UNION { [1..k -> S] : k \in 0..n } :
        \A i, j \in 1..Len(s) : i # j => s[i] # s[j] }

top_k_default == 5
similarity_threshold_default == 10

\* What current_collection.query can do for query q on a collection that
\* stores ids: raise, return something search() cannot index, or return up
\* to top_k stored records in some order, of which the leading n_dist carry
\* a distance and either all or none carry metadata.
RawResults(q, ids, top_k) ==
    { [kind |-> "raise"], [kind |-> "malformed"] } \cup
    { [kind |-> "results",
       documents |-> t[1],
       metadatas |-> [i \in 1..t[2] |->
                        [url |-> ToString(t[1][i]),
                         source_file |-> ToString(t[1][i]),
                         chunk_index |-> t[1][i] - 1]],
       distances |-> [i \in 1..t[3] |-> Distance(q, t[1][i])]] :
         t \in { u \in DistinctSeqs(ids, Min(top_k, MaxResults))
                       \X (0..MaxResults) \X (0..MaxResults) :
                   /\ u[2] \in {0, Len(u[1])}
                   /\ u[3] <= Len(u[1]) } }

\* Backend behaviours offered to a pipeline query: the same outcome on each
\* attempt, or one failure followed by completions.
AnswerBackends ==
    { [i \in 1..max_retries_default |-> o] : o \in BackendOutcomes } \cup
    { [i \in 1..max_retries_default |->
         IF i = 1 THEN [kind |-> "raise"]
         ELSE [kind |-> "completion", choices |-> 1,
               content |-> Str(<<" ", "Answer from context.", "\n">>)]] }

(***************************************************************************)
(* OttawaRAGPipeline                                                       *)
(***************************************************************************)
batch_size == 2

NoInfoAnswer == "I couldn't find relevant information about that topic in my Ottawa database."
ProcessingErrorAnswer == "I encountered an error processing your question: "
UnexpectedErrorAnswer == "I encountered an unexpected error. Please try rephrasing your question."

Zero == <<0, 1>>

\* Variant of search_relevant_context without the is_initialized guard.
search_relevant_context_unguarded(init, coll, query, top_k, threshold, embed, raw) ==
    LET none == [raised |-> FALSE, value |-> <<>>, results |-> <<>>,
                 embed_calls |-> 0, index_calls |-> 0,
                 embed_raised |-> FALSE, search_failed |-> FALSE]
    IN IF embed = "raise"
       THEN [none EXCEPT !.embed_calls = 1, !.embed_raised = TRUE]
       ELSE LET results == VectorStore_search(coll, distance_metric, raw)
            IN [none EXCEPT
                  !.value = SelectSeq(results.value,
                              LAMBDA result :
                                Get(result, "similarity", 0) >= threshold),
                  !.results = results.value,
                  !.embed_calls = 1,
                  !.index_calls = results.index_calls,
                  !.search_failed = results.failed]

\* Variant of search_relevant_context that drops a result whose similarity
\* equals the threshold.
search_relevant_context_strict(init, coll, query, top_k, threshold, embed, raw) ==
    LET none == [raised |-> FALSE, value |-> <<>>, results |-> <<>>,
                 embed_calls |-> 0, index_calls |-> 0,
                 embed_raised |-> FALSE, search_failed |-> FALSE]
    IN IF ~init
       THEN none
       ELSE IF embed = "raise"
            THEN [none EXCEPT !.embed_calls = 1, !.embed_raised = TRUE]
            ELSE LET results == VectorStore_search(coll, distance_metric, raw)
                 IN [none EXCEPT
                       !.value = SelectSeq(results.value,
                                   LAMBDA result :
                                     Get(result, "similarity", 0) > threshold),
                       !.results = results.value,
                       !.embed_calls = 1,
                       !.index_calls = results.index_calls,
                       !.search_failed = results.failed]

\* OttawaRAGPipeline.search_relevant_context; embed is what
\* generate_embeddings([query]) does, raw what the index query does.
search_relevant_context(init, coll, query, top_k, threshold, embed, raw) ==
    LET none == [raised |-> FALSE, value |-> <<>>, results |-> <<>>,
                 embed_calls |-> 0, index_calls |-> 0,
                 embed_raised |-> FALSE, search_failed |-> FALSE]
    IN IF ~init
       THEN none
       ELSE IF embed = "raise"
            THEN [none EXCEPT !.embed_calls = 1, !.embed_raised = TRUE]
            ELSE LET results == VectorStore_search(coll, distance_metric, raw)
                 IN [none EXCEPT
                       !.value = SelectSeq(results.value,
                                   LAMBDA result :
                                     Get(result, "similarity", 0) >= threshold),
                       !.results = results.value,
                       !.embed_calls = 1,
                       !.index_calls = results.index_calls,
                       !.search_failed = results.failed]

\* Variant of generate_response that calls the backend on empty context too.
generate_response_always_generates(cl, query, context_chunks, backend) ==
    LET llm == LLM_generate_response(cl, query, TRUE,
                                     max_retries_default, backend)
        sources ==
          [i \in 1..Len(context_chunks) |->
             LET metadata == Get(context_chunks[i], "metadata", EmptyDict)
             IN [url |-> Get(metadata, "url", ""),
                 source_file |-> Get(metadata, "source_file", ""),
                 similarity |-> Get(context_chunks[i], "similarity", 0)]]
    IN [raised |-> FALSE, llm |-> llm,
        value |-> [answer |-> llm.value,
                   sources |-> sources,
                   confidence |->
                     <<SumSeq([i \in 1..Len(context_chunks) |->
                                 Get(context_chunks[i], "similarity", 0)]),
                       Len(context_chunks)>>,
                   chunks_used |-> Len(context_chunks)]]

\* Variant of generate_response that reports the best passage's similarity
\* as the confidence.
generate_response_top_confidence(cl, query, context_chunks, backend) ==
    IF context_chunks = <<>>
    THEN [raised |-> FALSE, llm |-> NoCalls,
          value |-> [answer |-> Str(<<NoInfoAnswer>>), sources |-> <<>>,
                     confidence |-> Zero]]
    ELSE LET llm == LLM_generate_response(cl, query, TRUE,
                                          max_retries_default, backend)
             sources ==
               [i \in 1..Len(context_chunks) |->
                  LET metadata == Get(context_chunks[i], "metadata", EmptyDict)
                  IN [url |-> Get(metadata, "url", ""),
                      source_file |-> Get(metadata, "source_file", ""),
                      similarity |-> Get(context_chunks[i], "similarity", 0)]]
         IN [raised |-> FALSE, llm |-> llm,
             value |-> [answer |-> llm.value,
                        sources |-> sources,
                        confidence |->
                          <<Get(context_chunks[1], "similarity", 0), 1>>,
                        chunks_used |-> Len(context_chunks)]]

\* OttawaRAGPipeline.generate_response
generate_response(cl, query, context_chunks, backend) ==
    IF context_chunks = <<>>
    THEN [raised |-> FALSE, llm |-> NoCalls,
          value |-> [answer |-> Str(<<NoInfoAnswer>>), sources |-> <<>>,
                     confidence |-> Zero]]
    ELSE IF \E i \in 1..Len(context_chunks) :
                "document" \notin DOMAIN context_chunks[i]
         THEN [raised |-> FALSE, llm |-> NoCalls,
               value |-> [answer |-> Str(<<ProcessingErrorAnswer, "'document'">>),
                          sources |-> <<>>, confidence |-> Zero]]
         ELSE LET llm == LLM_generate_response(cl, query, TRUE,
                                               max_retries_default, backend)
                  sources ==
                    [i \in 1..Len(context_chunks) |->
                       LET metadata == Get(context_chunks[i], "metadata", EmptyDict)
                       IN [url |-> Get(metadata, "url", ""),
                           source_file |-> Get(metadata, "source_file", ""),
                           similarity |-> Get(context_chunks[i], "similarity", 0)]]
              IN [raised |-> FALSE, llm |-> llm,
                  value |-> [answer |-> llm.value,
                             sources |-> sources,
                             confidence |->
                               <<SumSeq([i \in 1..Len(context_chunks) |->
                                           Get(context_chunks[i], "similarity", 0)]),
                                 Len(context_chunks)>>,
                             chunks_used |-> Len(context_chunks)]]

\* Variant of answer_question that raises to its caller when the pipeline
\* is not initialized.
answer_question_raising(docs, chs, init, coll, cl, question, embed, raw, backend) ==
    LET relevant == search_relevant_context(init, coll, question,
                        top_k_default, similarity_threshold_default, embed, raw)
        response == generate_response(cl, question, relevant.value, backend)
    IN IF ~init
       THEN [raised |-> TRUE, relevant |-> relevant, llm |-> response.llm,
             value |-> PyNone]
       ELSE [raised |-> FALSE, relevant |-> relevant, llm |-> response.llm,
             value |-> Update(response.value,
                         [query |-> Str(question),
                          timestamp |-> "now",
                          pipeline_version |-> "1.0.0",
                          total_documents |-> Len(docs),
                          total_chunks |-> Len(chs)])]

\* OttawaRAGPipeline.answer_question
answer_question(docs, chs, init, coll, cl, question, embed, raw, backend) ==
    LET relevant == search_relevant_context(init, coll, question,
                        top_k_default, similarity_threshold_default, embed, raw)
        response == generate_response(cl, question, relevant.value, backend)
    IN IF relevant.raised \/ response.raised
       THEN [raised |-> FALSE, relevant |-> relevant, llm |-> response.llm,
             value |-> [answer |-> Str(<<UnexpectedErrorAnswer>>),
                        sources |-> <<>>, confidence |-> Zero,
                        error |-> "exception"]]
       ELSE [raised |-> FALSE, relevant |-> relevant, llm |-> response.llm,
             value |-> Update(response.value,
                         [query |-> Str(question),
                          timestamp |-> "now",
                          pipeline_version |-> "1.0.0",
                          total_documents |-> Len(docs),
                          total_chunks |-> Len(chs)])]

\* OttawaRAGPipeline.load_full_dataset; file is what is at data_path.
load_full_dataset(docs, chs, file) ==
    IF file.kind # "record"
    THEN [value |-> FALSE, documents |-> docs, chunks |-> chs]
    ELSE [value |-> TRUE,
          documents |-> Get(file.data, "documents", <<>>),
          chunks |-> Get(file.data, "chunks", <<>>)]

ChunkKeys == {"id", "content", "url", "source_file", "chunk_index"}

\* OttawaRAGPipeline.initialize_vector_database
initialize_vector_database(chs, init, coll, store, embed, create_ok, get_ok, fail_at) ==
    LET unchanged == [value |-> FALSE, is_initialized |-> init,
                      current_collection |-> coll, db |-> store,
                      embed_calls |-> 0, embed_raised |-> FALSE,
                      created |-> "not called", added |-> "not called",
                      written |-> <<>>]
    IN IF chs = <<>>
       THEN unchanged
       ELSE IF \E i \in 1..Len(chs) : "content" \notin DOMAIN chs[i]
            THEN unchanged
            ELSE IF embed = "raise"
                 THEN [unchanged EXCEPT !.embed_calls = 1, !.embed_raised = TRUE]
                 ELSE
    LET created == create_collection(coll, store, CollectionName,
                                     create_ok, get_ok)
        after_create == [unchanged EXCEPT
                           !.embed_calls = 1,
                           !.current_collection = created.current_collection,
                           !.db = created.db,
                           !.created = IF created.value THEN "True" ELSE "False"]
    IN IF \E i \in 1..Len(chs) : ~(ChunkKeys \subseteq DOMAIN chs[i])
       THEN after_create
       ELSE
    LET chunk_ids == [i \in 1..Len(chs) |-> chs[i].id]
        chunk_texts == [i \in 1..Len(chs) |-> chs[i].content]
        metadatas == [i \in 1..Len(chs) |->
                        [url |-> chs[i].url, source_file |-> chs[i].source_file,
                         chunk_index |-> chs[i].chunk_index]]
        \* generate_embeddings returns one vector per text
        embeddings == [i \in 1..Len(chunk_texts) |-> <<chunk_texts[i]>>]
        added == add_documents(created.current_collection, chunk_ids,
                               chunk_texts, embeddings, metadatas,
                               batch_size, fail_at)
    IN [after_create EXCEPT
          !.value = TRUE,
          !.is_initialized = TRUE,
          !.added = IF added.value THEN "True" ELSE "False",
          !.written = added.written,
          !.db = IF added.written = <<>>
                 THEN created.db
                 ELSE [created.db EXCEPT ![created.current_collection] =
                         @ \cup {added.written[i] : i \in 1..Len(added.written)}]]

(***************************************************************************)
(* LLMInterface.generate_response, one step of the retry loop at a time    *)
(***************************************************************************)
NoFrame == EmptyDict

\* the locals of generate_response on entering the for loop
LoopEntry(query, max_retries) ==
    [pc |-> "for", query |-> query, max_retries |-> max_retries,
     attempt |-> 0, value |-> PyNone, calls |-> 0, completed |-> 0,
     stats |-> 0, sleeps |-> <<>>, outcomes |-> <<>>]

\* Variant of one iteration that tests for the last attempt one too late.
RetryStep_late_exhaustion(f, o) ==
    LET called0 == [f EXCEPT !.calls = @ + 1,
                             !.outcomes = Append(@, IF AttemptFails(o)
                                                    THEN "failed" ELSE "success")]
        called == IF o.kind = "completion" /\ o.choices > 0
                  THEN [called0 EXCEPT !.stats = @ + 1]
                  ELSE called0
    IN IF ~AttemptFails(o)
       THEN [called EXCEPT !.value = Str(Strip(o.content.s)),
                           !.completed = @ + 1, !.pc = "return"]
       ELSE IF f.attempt = f.max_retries
            THEN [called EXCEPT !.value = _get_fallback_response(f.query),
                                !.pc = "return"]
            ELSE [called EXCEPT !.pc = "sleep"]

\* One iteration of `for attempt in range(max_retries)` whose backend call
\* does o: the body of the inner try, or the except clause up to the sleep.
RetryStep(f, o) ==
    LET called0 == [f EXCEPT !.calls = @ + 1,
                             !.outcomes = Append(@, IF AttemptFails(o)
                                                    THEN "failed" ELSE "success")]
        called == IF o.kind = "completion" /\ o.choices > 0
                  THEN [called0 EXCEPT !.stats = @ + 1]
                  ELSE called0
    IN IF ~AttemptFails(o)
       THEN [called EXCEPT !.value = Str(Strip(o.content.s)),
                           !.completed = @ + 1, !.pc = "return"]
       ELSE IF f.attempt = f.max_retries - 1
            THEN [called EXCEPT !.value = _get_fallback_response(f.query),
                                !.pc = "return"]
            ELSE [called EXCEPT !.pc = "sleep"]

\* time.sleep(2 ** attempt) returns and the loop takes the next attempt
SleepStep(f) ==
    [f EXCEPT !.sleeps = Append(@, 2 ^ f.attempt), !.attempt = @ + 1,
              !.pc = "for"]

\* LLMInterface.is_available with client.chat.completions.create behaving
\* as o: no call without a client; an exception of the call or of
\* choices[0] is caught; else bool(content).  probes counts the calls made.
is_available(cl, o) ==
    IF cl = "None" THEN [value |-> FALSE, probes |-> 0]
    ELSE IF o.kind = "raise" \/ o.choices = 0
    THEN [value |-> FALSE, probes |-> 1]
    ELSE [value |-> IsStr(o.content) /\ o.content.s # <<>>, probes |-> 1]

(***************************************************************************)
(* Defaults of the components the pipeline constructs                      *)
(***************************************************************************)
model_name_default == <<"m">>
embedding_dimension_default == 384
DefaultModel == [model_name |-> model_name_default,
                 embedding_dimension |-> embedding_dimension_default]

\* SimpleOttawaDataProcessor() keeps chunk_size 800, chunk_overlap 100 and
\* min_chunk_length 50, and split_text looks back 100 characters for a
\* sentence end.  The lengths are scaled down, keeping window = overlap,
\* chunk_size > overlap + window, overlap >= 2 and min_chunk_length <= overlap.
chunk_size_default == 5
chunk_overlap_default == 2
min_chunk_length_default == 2
SnapWindow == 2
DefaultSplitter == [chunk_size |-> chunk_size_default,
                    chunk_overlap |-> chunk_overlap_default,
                    min_chunk_length |-> min_chunk_length_default]

(***************************************************************************)
(* SimpleTextSplitter and SimpleOttawaDataProcessor (simple_processor.py). *)
(* A text is a tuple of characters.  Positions are Python's: 0-based, a    *)
(* slice [a:b] takes positions a..b-1.                                     *)
(***************************************************************************)
MaxTextLen == 8
Alphabet == {"a", ".", " "}
Texts == UNION {[1..n -> Alphabet] : n \in 0..MaxTextLen}

\* configurations the constructors accept: the default, one whose minimum
\* length exceeds the overlap, and one with an overlap of 1 and a minimum
\* length of chunk_size
Splitters ==
    {DefaultSplitter,
     [chunk_size |-> chunk_size_default, chunk_overlap |-> chunk_overlap_default,
      min_chunk_length |-> chunk_overlap_default + 2],
     [chunk_size |-> chunk_size_default - 1, chunk_overlap |-> 1,
      min_chunk_length |-> chunk_size_default - 1]}

\* a configuration with 0 < chunk_overlap < chunk_size whose chunk_size is
\* not above chunk_overlap plus the sentence window
TightSplitter ==
    [chunk_size |-> chunk_overlap_default + 1,
     chunk_overlap |-> chunk_overlap_default,
     min_chunk_length |-> min_chunk_length_default]

Max(a, b) == IF a >= b THEN a ELSE b

\* text[a:b] with Python's treatment of negative and out-of-range bounds
PySliceBound(n, i) == IF i < 0 THEN Max(n + i, 0) ELSE Min(i, n)
PySlice(text, a, b) ==
    SubSeq(text, PySliceBound(Len(text), a) + 1, PySliceBound(Len(text), b))

\* text[i] for -len(text) <= i < len(text)
PyAt(text, i) == text[(IF i < 0 THEN Len(text) + i ELSE i) + 1]

WordChars == {"a"}
KeptPunctuation == {".", ",", "!", "?", ";", ":", "-", "(", ")"}
sentence_endings == {".", "!", "?", "\n"}

RECURSIVE DropWhile(_, _)
DropWhile(t, S) ==
    IF t # <<>> /\ Head(t) \in S THEN DropWhile(Tail(t), S) ELSE t

\* re.sub of every maximal run of characters of S by the one character r
RECURSIVE SubRuns(_, _, _)
SubRuns(t, S, r) ==
    IF t = <<>> THEN <<>>
    ELSE IF Head(t) \in S THEN <<r>> \o SubRuns(DropWhile(t, S), S, r)
    ELSE <<Head(t)>> \o SubRuns(Tail(t), S, r)

\* re.sub(r'[^\w\s\.\,\!\?\;\:\-\(\)]', ' ', text)
SubDisallowed(t) ==
    [i \in 1..Len(t) |->
        IF t[i] \in WordChars \cup Whitespace \cup KeptPunctuation
        THEN t[i] ELSE " "]

\* re.sub(r'\s+\.', '.', text): a run of whitespace right before a full stop
\* is deleted
RECURSIVE SubSpaceBeforeStop(_)
SubSpaceBeforeStop(t) ==
    IF t = <<>> THEN <<>>
    ELSE IF Head(t) \in Whitespace
    THEN LET rest == DropWhile(t, Whitespace)
         IN  IF rest # <<>> /\ Head(rest) = "."
             THEN SubSpaceBeforeStop(rest)
             ELSE SubSeq(t, 1, Len(t) - Len(rest)) \o SubSpaceBeforeStop(rest)
    ELSE <<Head(t)>> \o SubSpaceBeforeStop(Tail(t))

\* content is a Python value: None, or a str
clean_text(content) ==
    IF content = PyNone \/ content.s = <<>> THEN <<>>
    ELSE LET t1 == SubRuns(content.s, Whitespace, " ")
             t2 == SubDisallowed(t1)
             t3 == SubRuns(t2, {"."}, ".")
             t4 == SubSpaceBeforeStop(t3)
             t5 == SubRuns(t4, Whitespace, " ")
         IN  Strip(t5)

\* split_text up to the loop: the early return for a short text, or the
\* locals at the first test of the while condition.  slices is a ghost: for
\* every chunk appended, the bounds of the slice it was stripped from and
\* whether its end was moved back to a sentence end.
SplitEntry_strict_comparison(text, caller, chunk_size) ==
    IF Len(text) < chunk_size
    THEN [pc |-> "return", caller |-> caller, text |-> text, start |-> 0,
          chunks |-> <<text>>,
          slices |-> <<[start |-> 0, end |-> Len(text), snapped |-> FALSE]>>]
    ELSE [pc |-> "while", caller |-> caller, text |-> text, start |-> 0,
          chunks |-> <<>>, slices |-> <<>>]

SplitEntry(text, caller, chunk_size) ==
    IF Len(text) <= chunk_size
    THEN [pc |-> "return", caller |-> caller, text |-> text, start |-> 0,
          chunks |-> <<text>>,
          slices |-> <<[start |-> 0, end |-> Len(text), snapped |-> FALSE]>>]
    ELSE [pc |-> "while", caller |-> caller, text |-> text, start |-> 0,
          chunks |-> <<>>, slices |-> <<>>]

\* the end of the chunk that starts at start: start + chunk_size, moved back
\* to the last sentence end of the window when there is one
ChunkEnd(text, start, chunk_size) ==
    LET end == Min(start + chunk_size, Len(text))
        search_start == Max(end - SnapWindow, start)
        breaks == {i \in search_start..(end - 1) :
                      /\ PyAt(text, i) \in sentence_endings
                      /\ i + 1 < Len(text)
                      /\ PyAt(text, i + 1) \in Whitespace}
        best_break == IF breaks = {} THEN -1
                      ELSE 1 + CHOOSE i \in breaks : \A j \in breaks : j <= i
    IN  IF end < Len(text) /\ best_break > 0 THEN best_break ELSE end

\* one iteration of the while loop of split_text, its test included
SplitStep(f, chunk_size, chunk_overlap) ==
    IF ~(f.start < Len(f.text)) THEN [f EXCEPT !.pc = "return"]
    ELSE LET end == ChunkEnd(f.text, f.start, chunk_size)
             chunk == Strip(PySlice(f.text, f.start, end))
             start == end - chunk_overlap
         IN  [f EXCEPT
                !.chunks = IF chunk # <<>> THEN Append(@, chunk) ELSE @,
                !.slices =
                    IF chunk # <<>>
                    THEN Append(@, [start |-> f.start, end |-> end,
                                    snapped |->
                                      end # Min(f.start + chunk_size,
                                                Len(f.text))])
                    ELSE @,
                !.start = start,
                !.pc = IF start >= Len(f.text) - chunk_overlap
                       THEN "return" ELSE "while"]

\* the chunk records create_chunks appends for the passages of one document
DocumentChunks_without_minimum(text_chunks, doc_idx, chunk_id_counter, min_chunk_length) ==
    [i \in 1..Len(text_chunks) |->
        [id |-> chunk_id_counter + i - 1, document_id |-> doc_idx,
         chunk_index |-> i - 1, content |-> text_chunks[i],
         content_length |-> Len(text_chunks[i])]]

DocumentChunks(text_chunks, doc_idx, chunk_id_counter, min_chunk_length) ==
    LET enumerated == [i \in 1..Len(text_chunks) |->
                          [chunk_idx |-> i - 1, chunk_text |-> text_chunks[i]]]
        Long(e) == Len(e.chunk_text) >= min_chunk_length
        kept == SelectSeq(enumerated, Long)
    IN  [i \in 1..Len(kept) |->
            [id |-> chunk_id_counter + i - 1, document_id |-> doc_idx,
             chunk_index |-> kept[i].chunk_idx, content |-> kept[i].chunk_text,
             content_length |-> Len(kept[i].chunk_text)]]

\* split_text as a function: the while loop run to its return.  Used only
\* with the configurations of Splitters, under which the loop ends.
RECURSIVE SplitLoop(_, _, _)
SplitLoop(f, chunk_size, chunk_overlap) ==
    IF f.pc = "return" THEN f.chunks
    ELSE SplitLoop(SplitStep(f, chunk_size, chunk_overlap),
                   chunk_size, chunk_overlap)

split_text(text, chunk_size, chunk_overlap) ==
    SplitLoop(SplitEntry(text, "create_chunks", chunk_size),
              chunk_size, chunk_overlap)

\* SimpleOttawaDataProcessor.processing_stats after __init__
NewProcessingStats ==
    [documents_processed |-> 0, chunks_created |-> 0, total_characters |-> 0,
     processing_errors |-> 0]

\* the for loop of create_chunks from document doc_idx on
RECURSIVE CreateChunksLoop(_, _, _, _, _)
CreateChunksLoop(docs, doc_idx, all_chunks, stats, sp) ==
    IF doc_idx >= Len(docs) THEN [all_chunks |-> all_chunks, stats |-> stats]
    ELSE LET document == docs[doc_idx + 1]
         IN  IF "content" \notin DOMAIN document
             THEN CreateChunksLoop(docs, doc_idx + 1, all_chunks,
                    [stats EXCEPT !.processing_errors = @ + 1], sp)
             ELSE LET cleaned_content == clean_text(document.content)
                  IN  IF Len(cleaned_content) < sp.min_chunk_length
                      THEN CreateChunksLoop(docs, doc_idx + 1, all_chunks,
                                            stats, sp)
                      ELSE CreateChunksLoop(docs, doc_idx + 1,
                             all_chunks \o
                               DocumentChunks(
                                 split_text(cleaned_content, sp.chunk_size,
                                            sp.chunk_overlap),
                                 doc_idx, Len(all_chunks),
                                 sp.min_chunk_length),
                             [stats EXCEPT !.documents_processed = @ + 1],
                             sp)

\* create_chunks on a processor whose statistics are stats
create_chunks(docs, stats, sp) ==
    LET r == CreateChunksLoop(docs, 0, <<>>, stats, sp)
    IN  [value |-> r.all_chunks,
         stats |-> [r.stats EXCEPT
                      !.chunks_created = Len(r.all_chunks),
                      !.total_characters =
                          SumSeq([i \in 1..Len(r.all_chunks) |->
                                     r.all_chunks[i].content_length])]]

\* _validate_document: 'url' and 'content' are present and the content is a
\* str of at least 50 characters after strip (scaled)
min_valid_content_length == 2
_validate_document(doc_data) ==
    /\ "url" \in DOMAIN doc_data
    /\ "content" \in DOMAIN doc_data
    /\ doc_data.content.type = "str"
    /\ Len(Strip(doc_data.content.s)) >= min_valid_content_length

\* load_raw_documents over the files of raw_data_dir in glob order; a file
\* is [parsed |-> FALSE] when json.load raises, else [parsed |-> TRUE,
\* doc_data |-> the record]
RECURSIVE LoadLoop(_, _, _, _)
LoadLoop(json_files, k, docs, stats) ==
    IF k > Len(json_files) THEN [value |-> docs, stats |-> stats]
    ELSE IF ~json_files[k].parsed
    THEN LoadLoop(json_files, k + 1, docs,
                  [stats EXCEPT !.processing_errors = @ + 1])
    ELSE IF _validate_document(json_files[k].doc_data)
    THEN LoadLoop(json_files, k + 1,
                  Append(docs, [url |-> json_files[k].doc_data.url,
                                content |-> json_files[k].doc_data.content,
                                source_file |-> k]),
                  stats)
    ELSE LoadLoop(json_files, k + 1, docs, stats)

load_raw_documents(json_files, stats) == LoadLoop(json_files, 1, <<>>, stats)

(***************************************************************************)
(* EmbeddingManager.  A text is a tuple of characters, a batch a sequence  *)
(* of texts.  The vector of a text records the text and the model that     *)
(* encoded it.  A cache file is the sequence of the blocks pickle.dump     *)
(* writes one after the other: the head (model_name, text_count and the    *)
(* length of the array), the array, the tail (embedding_dimension and the  *)
(* end of the pickle).                                                     *)
(***************************************************************************)
encode_batch_size == 1
MaxCacheFiles == 1

B_ab_c == << <<"a", "|", "b">>, <<"c">> >>
B_a_bc == << <<"a">>, <<"b", "|", "c">> >>
B_a_b == << <<"a">>, <<"b">> >>
B_b_a == << <<"b">>, <<"a">> >>
TextBatches == {<<>>, B_ab_c, B_a_bc, B_a_b, B_b_a}

\* the models a manager is constructed with: the default one, a model of the
\* same name with another dimension, and one whose name holds a "|"
Models ==
    {DefaultModel,
     [model_name |-> model_name_default, embedding_dimension |-> 768],
     [model_name |-> <<"c", "|">> \o model_name_default,
      embedding_dimension |-> embedding_dimension_default]}

\* sep.join(texts)
RECURSIVE Join(_, _)
Join(sep, texts) ==
    IF texts = <<>> THEN <<>>
    ELSE IF Len(texts) = 1 THEN texts[1]
    ELSE texts[1] \o sep \o Join(sep, Tail(texts))

\* hashlib.sha256(t.encode()).hexdigest()[:16], taken to be free of collisions
Sha256_16(t) == [sha256 |-> t]

_generate_cache_key(texts, mdl) ==
    Sha256_16(Join(<<"|">>, texts) \o <<"|">> \o mdl.model_name)

\* model.encode of one text
Vec(text, mdl) ==
    [text |-> text, model_name |-> mdl.model_name,
     dimension |-> mdl.embedding_dimension]

\* model.encode of a batch
Encode(texts, mdl) == [i \in 1..Len(texts) |-> Vec(texts[i], mdl)]

\* the bytes a hole of a file reads as
ZeroVec == [text |-> <<>>, model_name |-> <<>>, dimension |-> 0]

\* pickle.dump(cache_data, f), block by block
PickleBlocks(cache_data) ==
    << [part |-> "head", model_name |-> cache_data.model_name,
        text_count |-> cache_data.text_count],
       [part |-> "array", embeddings |-> cache_data.embeddings],
       [part |-> "tail",
        embedding_dimension |-> cache_data.embedding_dimension] >>

Hole == [part |-> "hole"]

\* pickle.load(f) of a file: it raises unless the file starts with a head
\* and reaches the tail; the bytes in between are the array whatever they are
Unpickle(file) ==
    IF /\ Len(file) = 3
       /\ file[1].part = "head"
       /\ file[2].part \in {"array", "hole"}
       /\ file[3].part = "tail"
    THEN [raised |-> FALSE,
          data |-> [model_name |-> file[1].model_name,
                    text_count |-> file[1].text_count,
                    embeddings |-> IF file[2].part = "array"
                                   THEN file[2].embeddings
                                   ELSE [i \in 1..file[1].text_count |-> ZeroVec],
                    embedding_dimension |-> file[3].embedding_dimension]]
    ELSE [raised |-> TRUE, data |-> EmptyDict]

NoHit == [hit |-> FALSE, embeddings |-> <<>>]

\* Variant that compares text_count with the wrong length.
_load_from_cache_wrong_count(texts, mdl, files, read_ok) ==
    LET cache_key == _generate_cache_key(texts, mdl)
    IN IF cache_key \notin DOMAIN files THEN NoHit
       ELSE IF ~read_ok THEN NoHit
       ELSE LET cached == Unpickle(files[cache_key])
            IN IF cached.raised THEN NoHit
               ELSE IF /\ cached.data.model_name = mdl.model_name
                       /\ cached.data.text_count = Len(texts) + 1
                    THEN [hit |-> TRUE, embeddings |-> cached.data.embeddings]
                    ELSE NoHit

\* EmbeddingManager._load_from_cache; read_ok is FALSE when opening or
\* reading the file raises.  A miss is the value None.
_load_from_cache(texts, mdl, files, read_ok) ==
    LET cache_key == _generate_cache_key(texts, mdl)
    IN IF cache_key \notin DOMAIN files THEN NoHit
       ELSE IF ~read_ok THEN NoHit
       ELSE LET cached == Unpickle(files[cache_key])
            IN IF cached.raised THEN NoHit
               ELSE IF /\ cached.data.model_name = mdl.model_name
                       /\ cached.data.text_count = Len(texts)
                    THEN [hit |-> TRUE, embeddings |-> cached.data.embeddings]
                    ELSE NoHit

\* what becomes of one write of a cache file: open(cache_file, 'wb') raises,
\* or the file is truncated and pickle.dump raises after `blocks` blocks,
\* or all three blocks are written
SaveOutcomes ==
    {[opened |-> FALSE, blocks |-> 0]} \cup
    {[opened |-> TRUE, blocks |-> n] : n \in 0..3}

\* EmbeddingManager._save_to_cache: the files afterwards
_save_to_cache(texts, embeddings, mdl, files, outcome) ==
    LET cache_key == _generate_cache_key(texts, mdl)
        cache_data == [model_name |-> mdl.model_name,
                       text_count |-> Len(texts),
                       embeddings |-> embeddings,
                       embedding_dimension |-> mdl.embedding_dimension]
    IN IF ~outcome.opened THEN files
       ELSE Update(files, cache_key :>
                      SubSeq(PickleBlocks(cache_data), 1, outcome.blocks))

\* the number of model.encode calls a batch of n texts takes
NumEncodeBatches(n) == (n + encode_batch_size - 1) \div encode_batch_size

\* EmbeddingManager.generate_embeddings with cache_dir set.  env tells
\* whether the cache file can be read, which model.encode call raises
\* (0: none) and what becomes of the write.
generate_embeddings(texts, use_cache, mdl, files, env) ==
    IF texts = <<>>
    THEN [raised |-> FALSE, value |-> <<>>, model_calls |-> 0,
          cache |-> files, hit |-> FALSE, save |-> "not called"]
    ELSE LET cached == IF use_cache
                       THEN _load_from_cache(texts, mdl, files, env.read_ok)
                       ELSE NoHit
         IN IF cached.hit
            THEN [raised |-> FALSE, value |-> cached.embeddings,
                  model_calls |-> 0, cache |-> files, hit |-> TRUE,
                  save |-> "not called"]
            ELSE IF env.encode_fail_at > 0
                 THEN [raised |-> TRUE, value |-> <<>>,
                       model_calls |-> env.encode_fail_at, cache |-> files,
                       hit |-> FALSE, save |-> "not called"]
                 ELSE LET embeddings == Encode(texts, mdl)
                      IN [raised |-> FALSE, value |-> embeddings,
                          model_calls |-> NumEncodeBatches(Len(texts)),
                          cache |-> IF use_cache
                                    THEN _save_to_cache(texts, embeddings, mdl,
                                                        files, env.save)
                                    ELSE files,
                          hit |-> FALSE,
                          save |-> IF ~use_cache THEN "not called"
                                   ELSE IF env.save.blocks = 3 THEN "written"
                                   ELSE "failed"]

(***************************************************************************)
(* The pipeline as a state machine: construction, then any sequence of     *)
(* calls of its public methods.                                            *)
(***************************************************************************)
Init ==
    /\ documents = <<>>
    /\ chunks = <<>>
    /\ is_initialized = FALSE
    /\ client \in {"Groq", "None"}
    /\ total_requests = 0
    /\ current_collection = "None"
    /\ db = EmptyDict
    /\ op = "idle"
    /\ args = EmptyDict
    /\ ret = PyNone
    /\ trace = EmptyDict
    /\ ready = FALSE
    /\ store_metric = distance_metric
    /\ model = DefaultModel
    /\ cache = EmptyDict
    /\ splitter = DefaultSplitter
    /\ frame = NoFrame

LoadFullDataset ==
    /\ op = "idle"
    /\ UNCHANGED componentVars
    /\ \E file \in CorpusFiles :
        \E r \in {load_full_dataset(documents, chunks, file)} :
           /\ documents' = r.documents
           /\ chunks' = r.chunks
           /\ op' = "load_full_dataset"
           /\ args' = [file |-> file]
           /\ ret' = r.value
           /\ trace' = EmptyDict
           /\ UNCHANGED <<is_initialized, client, total_requests,
                          current_collection, db, ready>>

NumBatches(n) == (n + batch_size - 1) \div batch_size

InitializeVectorDatabase ==
    /\ op = "idle"
    /\ UNCHANGED componentVars
    /\ \E embed \in {"ok", "raise"}, create_ok \in BOOLEAN, get_ok \in BOOLEAN,
          fail_at \in 0..NumBatches(Len(chunks)) :
        \E r \in {initialize_vector_database(chunks, is_initialized,
                     current_collection, db, embed, create_ok, get_ok, fail_at)} :
           /\ is_initialized' = r.is_initialized
           /\ current_collection' = r.current_collection
           /\ db' = r.db
           /\ op' = "initialize_vector_database"
           /\ args' = EmptyDict
           /\ ret' = r.value
           /\ trace' = [embed_calls |-> r.embed_calls,
                        embed_raised |-> r.embed_raised,
                        created |-> r.created,
                        added |-> r.added,
                        written |-> r.written]
           /\ ready' = (ready \/ r.value)
           /\ UNCHANGED <<documents, chunks, client, total_requests>>

StoredIds == IF current_collection = "None" THEN {} ELSE db[current_collection]

\* The collaborators are enumerated only where the call consults them.
AnswerQuestion ==
    /\ op = "idle"
    /\ UNCHANGED componentVars
    /\ total_requests < MaxRequests
    /\ \E question \in Queries,
          embed \in (IF is_initialized THEN {"ok", "raise"} ELSE {"ok"}) :
       \E raw \in (IF is_initialized /\ embed = "ok"
                   THEN RawResults(question, StoredIds, top_k_default)
                   ELSE {[kind |-> "raise"]}),
          backend \in (IF is_initialized /\ client = "Groq"
                       THEN AnswerBackends
                       ELSE {[i \in 1..max_retries_default |-> [kind |-> "raise"]]}) :
        \E r \in {answer_question(documents, chunks, is_initialized,
                     current_collection, client, question, embed, raw, backend)} :
           /\ total_requests' = total_requests + r.llm.stats
           /\ op' = "answer_question"
           /\ args' = [question |-> question]
           /\ ret' = IF r.raised THEN PyNone ELSE r.value
           /\ trace' = [raised |-> r.raised,
                        results |-> r.relevant.results,
                        relevant |-> r.relevant.value,
                        embed_calls |-> r.relevant.embed_calls,
                        index_calls |-> r.relevant.index_calls,
                        llm_calls |-> r.llm.calls,
                        embed_raised |-> r.relevant.embed_raised,
                        search_failed |-> r.relevant.search_failed,
                        llm_exhausted |-> r.llm.calls > 0 /\ r.llm.completed = 0]
           /\ UNCHANGED <<documents, chunks, is_initialized, client,
                          current_collection, db, ready>>

\* A direct call of search_relevant_context.
SearchRelevantContext ==
    /\ op = "idle"
    /\ UNCHANGED componentVars
    /\ \E query \in Queries, threshold \in {similarity_threshold_default, 0},
          embed \in (IF is_initialized THEN {"ok", "raise"} ELSE {"ok"}) :
       \E raw \in (IF is_initialized /\ embed = "ok"
                THEN RawResults(query, StoredIds, top_k_default)
                ELSE {[kind |-> "raise"]}) :
        \E r \in {search_relevant_context(is_initialized, current_collection,
                     query, top_k_default, threshold, embed, raw)} :
           /\ op' = "search_relevant_context"
           /\ args' = [query |-> query, top_k |-> top_k_default,
                       similarity_threshold |-> threshold]
           /\ ret' = r.value
           /\ trace' = [raised |-> r.raised,
                        results |-> r.results,
                        embed_calls |-> r.embed_calls,
                        index_calls |-> r.index_calls]
           /\ UNCHANGED <<documents, chunks, is_initialized, client,
                          total_requests, current_collection, db, ready>>

\* The caller takes the returned value and is free to call again.
Consume ==
    /\ op # "idle"
    /\ frame = NoFrame
    /\ UNCHANGED componentVars
    /\ op' = "idle"
    /\ args' = EmptyDict
    /\ ret' = PyNone
    /\ trace' = EmptyDict
    /\ UNCHANGED <<documents, chunks, is_initialized, client, total_requests,
                   current_collection, db, ready>>

Next ==
    \/ Consume
    \/ LoadFullDataset
    \/ InitializeVectorDatabase
    \/ SearchRelevantContext
    \/ AnswerQuestion

Spec == Init /\ [][Next]_vars

(***************************************************************************)
(* LLMInterface on its own: direct calls of generate_response              *)
(***************************************************************************)
\* backend[i] is enumerated for the attempts the loop can make.
LLMGenerateResponse ==
    /\ op = "idle"
    /\ UNCHANGED componentVars
    /\ total_requests < MaxRequests
    /\ \E query \in LLMQueries, prompt_ok \in BOOLEAN,
          max_retries \in 0..MaxRetriesArg :
       \E backend \in [1..max_retries -> BackendOutcomes] :
        \E r \in {LLM_generate_response(client, query, prompt_ok, max_retries,
                                       backend)} :
           /\ total_requests' = total_requests + r.stats
           /\ op' = "LLMInterface.generate_response"
           /\ args' = [query |-> query, prompt_ok |-> prompt_ok,
                       max_retries |-> max_retries]
           /\ ret' = r.value
           /\ trace' = [calls |-> r.calls, completed |-> r.completed,
                        sleeps |-> r.sleeps,
                        outcomes |-> [i \in 1..r.calls |-> backend[i].kind]]
           /\ UNCHANGED <<documents, chunks, is_initialized, client,
                          current_collection, db, ready>>

NextLLM == LLMGenerateResponse \/ Consume

SpecLLM == Init /\ [][NextLLM]_vars

(***************************************************************************)
(* LLMInterface.generate_response as the thread runs it: entry, the        *)
(* attempts, the waits between them, the return.                           *)
(***************************************************************************)
LLMEnter ==
    /\ op = "idle"
    /\ frame = NoFrame
    /\ total_requests < MaxRequests
    /\ \E query \in LLMQueries, prompt_ok \in BOOLEAN,
          max_retries \in 0..MaxRetriesArg :
        /\ args' = [query |-> query, prompt_ok |-> prompt_ok,
                    max_retries |-> max_retries]
        /\ frame' = IF client = "None" \/ ~prompt_ok
                     THEN [LoopEntry(query, max_retries) EXCEPT
                              !.value = _get_fallback_response(query),
                              !.pc = "return"]
                     ELSE LoopEntry(query, max_retries)
    /\ op' = "LLMInterface.generate_response: running"
    /\ ret' = PyNone
    /\ trace' = EmptyDict
    /\ UNCHANGED <<documents, chunks, is_initialized, client, total_requests,
                   current_collection, db, ready, store_metric, model, cache,
                   splitter>>

\* the loop header, and one attempt when the range is not exhausted
LLMAttempt ==
    /\ frame # NoFrame
    /\ frame.pc = "for"
    /\ IF frame.attempt >= frame.max_retries
       THEN frame' = [frame EXCEPT !.pc = "return"]
       ELSE \E o \in BackendOutcomes : frame' = RetryStep(frame, o)
    /\ UNCHANGED <<documents, chunks, is_initialized, client, total_requests,
                   current_collection, db, op, args, ret, trace, ready,
                   store_metric, model, cache, splitter>>

LLMSleep ==
    /\ frame # NoFrame
    /\ frame.pc = "sleep"
    /\ frame' = SleepStep(frame)
    /\ UNCHANGED <<documents, chunks, is_initialized, client, total_requests,
                   current_collection, db, op, args, ret, trace, ready,
                   store_metric, model, cache, splitter>>

LLMReturn ==
    /\ frame # NoFrame
    /\ frame.pc = "return"
    /\ op' = "LLMInterface.generate_response"
    /\ ret' = frame.value
    /\ trace' = [calls |-> frame.calls, completed |-> frame.completed,
                 sleeps |-> frame.sleeps, outcomes |-> frame.outcomes]
    /\ total_requests' = total_requests + frame.stats
    /\ frame' = NoFrame
    /\ UNCHANGED <<documents, chunks, is_initialized, client,
                   current_collection, db, args, ready, store_metric, model, cache,
                   splitter>>

NextLLMSteps == LLMEnter \/ LLMAttempt \/ LLMSleep \/ LLMReturn \/ Consume

\* A thread that has entered the call keeps running: the backend call
\* returns or raises, and time.sleep returns.
SpecLLMSteps ==
    /\ Init
    /\ [][NextLLMSteps]_vars
    /\ WF_vars(LLMAttempt)
    /\ WF_vars(LLMSleep)
    /\ WF_vars(LLMReturn)

(***************************************************************************)
(* EmbeddingManager on its own: managers are constructed over one cache    *)
(* directory and generate_embeddings is called again and again.            *)
(***************************************************************************)
NewEmbeddingManager ==
    /\ \E mdl \in Models \ {model} :
        /\ model' = mdl
        /\ args' = [model_name |-> mdl.model_name]
    /\ op' = "EmbeddingManager"
    /\ ret' = PyNone
    /\ trace' = EmptyDict
    /\ UNCHANGED <<documents, chunks, is_initialized, client, total_requests,
                   current_collection, db, ready, store_metric, cache,
                   splitter, frame>>

ClearCache ==
    /\ cache # EmptyDict
    /\ cache' = EmptyDict
    /\ op' = "clear_cache"
    /\ args' = EmptyDict
    /\ ret' = PyNone
    /\ trace' = EmptyDict
    /\ UNCHANGED <<documents, chunks, is_initialized, client, total_requests,
                   current_collection, db, ready, store_metric, model,
                   splitter, frame>>

WrittenOutcome == [opened |-> TRUE, blocks |-> 3]

\* The environment is enumerated only where the call consults it.
GenerateEmbeddings ==
    /\ \E texts \in TextBatches, use_cache \in BOOLEAN :
       \E read_ok \in (IF /\ use_cache
                          /\ texts # <<>>
                          /\ _generate_cache_key(texts, model) \in DOMAIN cache
                       THEN BOOLEAN ELSE {TRUE}) :
       \E computes \in {/\ texts # <<>>
                        /\ ~(use_cache /\
                             _load_from_cache(texts, model, cache, read_ok).hit)} :
       \E encode_fail_at \in (IF computes
                              THEN 0..NumEncodeBatches(Len(texts)) ELSE {0}),
          save \in (IF computes /\ use_cache THEN SaveOutcomes
                    ELSE {WrittenOutcome}) :
        \E r \in {generate_embeddings(texts, use_cache, model, cache,
                      [read_ok |-> read_ok, encode_fail_at |-> encode_fail_at,
                       save |-> save])} :
           /\ Cardinality(DOMAIN r.cache) <= MaxCacheFiles
           /\ cache' = r.cache
           /\ op' = "generate_embeddings"
           /\ args' = [texts |-> texts, use_cache |-> use_cache]
           /\ ret' = r.value
           /\ trace' = [raised |-> r.raised, model_calls |-> r.model_calls,
                        hit |-> r.hit, save |-> r.save, read_ok |-> read_ok]
    /\ UNCHANGED <<documents, chunks, is_initialized, client, total_requests,
                   current_collection, db, ready, store_metric, model,
                   splitter, frame>>

NextEmbed == GenerateEmbeddings \/ NewEmbeddingManager \/ ClearCache

SpecEmbed == Init /\ [][NextEmbed]_vars

(***************************************************************************)
(* Concurrent calls of generate_embeddings on one batch: each thread does  *)
(* check, compute, write as the code does them, one file operation at a    *)
(* time.  Nothing in EmbeddingManager locks the cache file.                *)
(***************************************************************************)
NumThreads == 3
Threads == 1..NumThreads

SharedBatch == B_a_b
SharedKey == _generate_cache_key(SharedBatch, DefaultModel)

\* f.write(block) at offset pos of a file: the bytes skipped over are a hole
WriteAt(file, pos, block) ==
    LET n == IF Len(file) > pos + 1 THEN Len(file) ELSE pos + 1
    IN [i \in 1..n |-> IF i = pos + 1 THEN block
                       ELSE IF i <= Len(file) THEN file[i] ELSE Hole]

\* the result of pickle.load over the blocks a reader got, as
\* _load_from_cache judges it
JudgeRead(got, texts, mdl) ==
    LET cached == Unpickle(got)
    IN IF cached.raised THEN NoHit
       ELSE IF /\ cached.data.model_name = mdl.model_name
               /\ cached.data.text_count = Len(texts)
            THEN [hit |-> TRUE, embeddings |-> cached.data.embeddings]
            ELSE NoHit

InitEmbedThreads ==
    /\ documents = <<>>
    /\ chunks = <<>>
    /\ is_initialized = FALSE
    /\ client = "None"
    /\ total_requests = 0
    /\ current_collection = "None"
    /\ db = EmptyDict
    /\ op = "idle"
    /\ args = EmptyDict
    /\ ret = PyNone
    /\ trace = EmptyDict
    /\ ready = FALSE
    /\ store_metric = distance_metric
    /\ model = DefaultModel
    /\ cache = EmptyDict
    /\ splitter = DefaultSplitter
    /\ frame = [t \in Threads |-> [pc |-> "idle"]]

restOfPipeline == <<documents, chunks, is_initialized, client, total_requests,
                    current_collection, db, op, args, ret, trace, ready,
                    store_metric, model, splitter>>

\* generate_embeddings(texts) is called on thread t: texts is not empty and
\* use_cache and cache_dir are set, so the cache is checked first
EmbedCall(t) ==
    /\ frame[t].pc = "idle"
    /\ frame' = [frame EXCEPT ![t] = [pc |-> "check", texts |-> SharedBatch]]
    /\ UNCHANGED <<cache, restOfPipeline>>

\* _load_from_cache: cache_file.exists() and open(cache_file, 'rb')
CacheCheck(t) ==
    /\ frame[t].pc = "check"
    /\ frame' = [frame EXCEPT ![t] =
          IF _generate_cache_key(frame[t].texts, model) \in DOMAIN cache
          THEN [pc |-> "read", texts |-> frame[t].texts, got |-> <<>>]
          ELSE [pc |-> "encode", texts |-> frame[t].texts]]
    /\ UNCHANGED <<cache, restOfPipeline>>

\* pickle.load(f): the next read of the file; at the end of the file, or of
\* the pickle, the outcome is judged
CacheRead(t) ==
    /\ frame[t].pc = "read"
    /\ LET file == cache[_generate_cache_key(frame[t].texts, model)]
           pos == Len(frame[t].got)
       IN frame' = [frame EXCEPT ![t] =
            IF pos < Len(file) /\ pos < 3
            THEN [@ EXCEPT !.got = Append(@, file[pos + 1])]
            ELSE LET cached == JudgeRead(frame[t].got, frame[t].texts, model)
                 IN IF cached.hit
                    THEN [pc |-> "done", texts |-> frame[t].texts,
                          value |-> cached.embeddings, model_calls |-> 0]
                    ELSE [pc |-> "encode", texts |-> frame[t].texts]]
    /\ UNCHANGED <<cache, restOfPipeline>>

\* the batch loop over self.model.encode and np.vstack
ModelEncode(t) ==
    /\ frame[t].pc = "encode"
    /\ frame' = [frame EXCEPT ![t] =
          [pc |-> "open", texts |-> frame[t].texts,
           embeddings |-> Encode(frame[t].texts, model)]]
    /\ UNCHANGED <<cache, restOfPipeline>>

\* _save_to_cache: open(cache_file, 'wb') creates or truncates the file
CacheOpenForWrite(t) ==
    /\ frame[t].pc = "open"
    /\ cache' = Update(cache,
                       _generate_cache_key(frame[t].texts, model) :> <<>>)
    /\ frame' = [frame EXCEPT ![t] =
          [pc |-> "write", texts |-> frame[t].texts,
           embeddings |-> frame[t].embeddings, pos |-> 0]]
    /\ UNCHANGED restOfPipeline

\* pickle.dump: the next block goes to the file at this writer's offset;
\* after the last one the file is closed and generate_embeddings returns
CacheWrite(t) ==
    /\ frame[t].pc = "write"
    /\ LET cache_key == _generate_cache_key(frame[t].texts, model)
           cache_data == [model_name |-> model.model_name,
                          text_count |-> Len(frame[t].texts),
                          embeddings |-> frame[t].embeddings,
                          embedding_dimension |-> model.embedding_dimension]
           pos == frame[t].pos
       IN /\ cache' = Update(cache, cache_key :>
                 WriteAt(cache[cache_key], pos, PickleBlocks(cache_data)[pos + 1]))
          /\ frame' = [frame EXCEPT ![t] =
                IF pos + 1 < 3
                THEN [@ EXCEPT !.pos = pos + 1]
                ELSE [pc |-> "done", texts |-> frame[t].texts,
                      value |-> frame[t].embeddings,
                      model_calls |-> NumEncodeBatches(Len(frame[t].texts))]]
    /\ UNCHANGED restOfPipeline

NextEmbedThreads ==
    \E t \in Threads :
        \/ EmbedCall(t)
        \/ CacheCheck(t)
        \/ CacheRead(t)
        \/ ModelEncode(t)
        \/ CacheOpenForWrite(t)
        \/ CacheWrite(t)

SpecEmbedThreads == InitEmbedThreads /\ [][NextEmbedThreads]_vars

(***************************************************************************)
(* VectorStore on its own: a store constructed with any of the metrics the *)
(* constructor documents, and direct calls of its methods.                 *)
(***************************************************************************)
SupportedMetrics == {"cosine", "l2", "ip"}

\* a Python bool handed to the caller
PyBool(b) == [type |-> "bool", v |-> b]

InitStore ==
    /\ documents = <<>>
    /\ chunks = <<>>
    /\ is_initialized = FALSE
    /\ client = "None"
    /\ total_requests = 0
    /\ current_collection = "None"
    /\ db = EmptyDict
    /\ op = "idle"
    /\ args = EmptyDict
    /\ ret = PyNone
    /\ trace = EmptyDict
    /\ ready = FALSE
    /\ store_metric \in SupportedMetrics
    /\ model = DefaultModel
    /\ cache = EmptyDict
    /\ splitter = DefaultSplitter
    /\ frame = NoFrame

CreateCollection ==
    /\ op = "idle"
    /\ \E create_ok \in BOOLEAN, get_ok \in BOOLEAN :
        \E r \in {create_collection(current_collection, db, CollectionName,
                                    create_ok, get_ok)} :
           /\ current_collection' = r.current_collection
           /\ db' = r.db
           /\ ret' = PyBool(r.value)
    /\ op' = "create_collection"
    /\ args' = EmptyDict
    /\ trace' = EmptyDict
    /\ UNCHANGED <<documents, chunks, is_initialized, client, total_requests,
                   ready, componentVars>>

\* the ids a sequence holds
Range(seq) == {seq[i] : i \in 1..Len(seq)}

\* metadatas=None is replaced by one default record per id before the
\* lengths are compared.  The lists are enumerated by their lengths; a
\* batch can fail only where the loop is reached.
AddDocuments ==
    /\ op = "idle"
    /\ \E n \in 0..MaxChunks, metadatas_given \in BOOLEAN :
       \E n_documents \in {n, n + 1}, n_embeddings \in {n, n + 1},
          n_metadatas \in (IF metadatas_given THEN {n, n + 1} ELSE {n}) :
       \E fail_at \in (IF /\ current_collection # "None"
                          /\ n_documents = n /\ n_embeddings = n
                          /\ n_metadatas = n
                       THEN 0..NumBatches(n) ELSE {0}) :
        \E r \in {add_documents(current_collection,
                      [i \in 1..n |-> i], [i \in 1..n_documents |-> i],
                      [i \in 1..n_embeddings |-> i],
                      [i \in 1..n_metadatas |-> EmptyDict],
                      batch_size, fail_at)} :
           /\ db' = IF current_collection = "None" THEN db
                    ELSE [db EXCEPT ![current_collection] = @ \cup Range(r.written)]
           /\ ret' = PyBool(r.value)
           /\ args' = [n_ids |-> n, n_documents |-> n_documents,
                       n_embeddings |-> n_embeddings,
                       n_metadatas |-> n_metadatas]
           /\ trace' = [written |-> r.written, failed_batch |-> fail_at]
    /\ op' = "add_documents"
    /\ UNCHANGED <<documents, chunks, is_initialized, client, total_requests,
                   current_collection, ready, componentVars>>

Search ==
    /\ op = "idle"
    /\ \E query \in Queries, top_k \in 1..MaxResults :
       \E raw \in (IF current_collection # "None"
                   THEN RawResults(query, StoredIds, top_k)
                   ELSE {[kind |-> "raise"]}) :
        \E r \in {VectorStore_search(current_collection, store_metric, raw)} :
           /\ ret' = r.value
           /\ args' = [query |-> query, top_k |-> top_k]
           /\ trace' = [index_calls |-> r.index_calls, failed |-> r.failed]
    /\ op' = "search"
    /\ UNCHANGED <<documents, chunks, is_initialized, client, total_requests,
                   current_collection, db, ready, componentVars>>

NextStore == CreateCollection \/ AddDocuments \/ Search \/ Consume

SpecStore == InitStore /\ [][NextStore]_vars

(***************************************************************************)
(* The chunker: split_text called on a text, and create_chunks called on   *)
(* a corpus of one document, which cleans the content and calls            *)
(* split_text.  The while loop of split_text runs one iteration per step.  *)
(***************************************************************************)
\* contents with a character clean_text replaces
MarkedTexts == {<<"a", "#", "a", "a", "a", "a">>, <<"#", "a", ".", ".", "a">>}

\* the documents of a corpus: with a str content, with content None, and
\* without the key 'content'
Documents ==
    {[content |-> Str(t)] : t \in Texts \cup MarkedTexts}
        \cup {[content |-> PyNone], EmptyDict}

InitChunker ==
    /\ documents = <<>>
    /\ chunks = <<>>
    /\ is_initialized = FALSE
    /\ client = "None"
    /\ total_requests = 0
    /\ current_collection = "None"
    /\ db = EmptyDict
    /\ op = "idle"
    /\ args = EmptyDict
    /\ ret = PyNone
    /\ trace = EmptyDict
    /\ ready = FALSE
    /\ store_metric = distance_metric
    /\ model = DefaultModel
    /\ cache = EmptyDict
    /\ splitter \in Splitters
    /\ frame = NoFrame

restOfChunker == <<documents, chunks, is_initialized, client, total_requests,
                   current_collection, db, ready, store_metric, model, cache,
                   splitter>>

SplitText ==
    /\ op = "idle"
    /\ frame = NoFrame
    /\ \E text \in Texts :
        /\ args' = [text |-> text]
        /\ frame' = SplitEntry(text, "split_text", splitter.chunk_size)
    /\ op' = "split_text: running"
    /\ ret' = PyNone
    /\ trace' = EmptyDict
    /\ UNCHANGED restOfChunker

\* create_chunks up to the call of split_text.  A document without
\* 'content' raises KeyError, which the except clause counts; a cleaned
\* content below min_chunk_length is skipped by continue.
CreateChunks ==
    /\ op = "idle"
    /\ frame = NoFrame
    /\ \E document \in Documents :
        IF "content" \notin DOMAIN document
        THEN /\ op' = "create_chunks"
             /\ ret' = PyList(<<>>)
             /\ trace' = [skipped |-> FALSE, text_chunks |-> <<>>,
                          documents_processed |-> 0, processing_errors |-> 1]
             /\ frame' = NoFrame
        ELSE LET cleaned_content == clean_text(document.content)
             IN  IF Len(cleaned_content) < splitter.min_chunk_length
                 THEN /\ op' = "create_chunks"
                      /\ ret' = PyList(<<>>)
                      /\ trace' = [skipped |-> TRUE, text_chunks |-> <<>>,
                                   cleaned_content |-> cleaned_content,
                                   documents_processed |-> 0,
                                   processing_errors |-> 0]
                      /\ frame' = NoFrame
                 ELSE /\ op' = "create_chunks: running"
                      /\ ret' = PyNone
                      /\ trace' = EmptyDict
                      /\ frame' = SplitEntry(cleaned_content, "create_chunks",
                                             splitter.chunk_size)
    /\ args' = [n_documents |-> 1]
    /\ UNCHANGED restOfChunker

\* The list of chunks is capped: a loop whose start advances never appends
\* more chunks than the text has characters.
SplitWhile ==
    /\ frame # NoFrame
    /\ frame.pc = "while"
    /\ Len(frame.chunks) <= MaxTextLen
    /\ frame' = SplitStep(frame, splitter.chunk_size, splitter.chunk_overlap)
    /\ UNCHANGED <<op, args, ret, trace>>
    /\ UNCHANGED restOfChunker

SplitTextReturn ==
    /\ frame # NoFrame
    /\ frame.pc = "return"
    /\ frame.caller = "split_text"
    /\ op' = "split_text"
    /\ ret' = PyList(frame.chunks)
    /\ trace' = [slices |-> frame.slices]
    /\ frame' = NoFrame
    /\ UNCHANGED args
    /\ UNCHANGED restOfChunker

\* create_chunks from the return of split_text on
CreateChunksReturn ==
    /\ frame # NoFrame
    /\ frame.pc = "return"
    /\ frame.caller = "create_chunks"
    /\ op' = "create_chunks"
    /\ ret' = PyList(DocumentChunks(frame.chunks, 0, 0,
                                    splitter.min_chunk_length))
    /\ trace' = [skipped |-> FALSE, text_chunks |-> frame.chunks,
                 cleaned_content |-> frame.text,
                 documents_processed |-> 1, processing_errors |-> 0]
    /\ frame' = NoFrame
    /\ UNCHANGED args
    /\ UNCHANGED restOfChunker

NextChunker ==
    \/ SplitText
    \/ CreateChunks
    \/ SplitWhile
    \/ SplitTextReturn
    \/ CreateChunksReturn
    \/ Consume

\* a call that has entered split_text keeps executing
SpecChunker ==
    /\ InitChunker
    /\ [][NextChunker]_vars
    /\ WF_frame(SplitWhile)
    /\ WF_frame(SplitTextReturn)
    /\ WF_frame(CreateChunksReturn)

\* the chunker with every configuration, TightSplitter included
InitSplitLoop ==
    /\ documents = <<>>
    /\ chunks = <<>>
    /\ is_initialized = FALSE
    /\ client = "None"
    /\ total_requests = 0
    /\ current_collection = "None"
    /\ db = EmptyDict
    /\ op = "idle"
    /\ args = EmptyDict
    /\ ret = PyNone
    /\ trace = EmptyDict
    /\ ready = FALSE
    /\ store_metric = distance_metric
    /\ model = DefaultModel
    /\ cache = EmptyDict
    /\ splitter \in Splitters \cup {TightSplitter}
    /\ frame = NoFrame

SpecSplitLoop ==
    /\ InitSplitLoop
    /\ [][NextChunker]_vars
    /\ WF_frame(SplitWhile)
    /\ WF_frame(SplitTextReturn)
    /\ WF_frame(CreateChunksReturn)

(***************************************************************************)
(* Ingestion: load_raw_documents and create_chunks on a new processor,     *)
(* over a directory of raw files and over a corpus of documents.           *)
(***************************************************************************)
MaxDocuments == 2

\* contents: cleaned below every minimum; valid, and cleaned to two
\* characters; one passage; several passages
CorpusTexts ==
    {<<"a">>, <<"a", " ", " ", ".">>, <<"a", "a", "a", "a">>,
     <<"a", "a", "a", "a", ".", "a", "a", "a">>}

CorpusDocuments ==
    {[url |-> "u", content |-> Str(t)] : t \in CorpusTexts}
        \cup {[url |-> "u", content |-> PyNone], [url |-> "u"]}

RawFiles ==
    {[parsed |-> TRUE, doc_data |-> d] : d \in CorpusDocuments \cup {EmptyDict}}
        \cup {[parsed |-> FALSE]}

LoadRawDocuments ==
    /\ op = "idle"
    /\ frame = NoFrame
    /\ \E n \in 0..MaxDocuments : \E json_files \in [1..n -> RawFiles] :
        \E r \in {load_raw_documents(json_files, NewProcessingStats)} :
            /\ args' = [json_files |-> json_files]
            /\ ret' = PyList(r.value)
            /\ trace' = [processing_stats |-> r.stats]
    /\ op' = "load_raw_documents"
    /\ UNCHANGED frame
    /\ UNCHANGED restOfChunker

CreateChunksOfCorpus ==
    /\ op = "idle"
    /\ frame = NoFrame
    /\ \E n \in 0..MaxDocuments : \E docs \in [1..n -> CorpusDocuments] :
        \E r \in {create_chunks(docs, NewProcessingStats, splitter)} :
            /\ args' = [documents |-> docs]
            /\ ret' = PyList(r.value)
            /\ trace' = [processing_stats |-> r.stats]
    /\ op' = "create_chunks"
    /\ UNCHANGED frame
    /\ UNCHANGED restOfChunker

NextIngest == LoadRawDocuments \/ CreateChunksOfCorpus \/ Consume

SpecIngest == InitChunker /\ [][NextIngest]_vars

(***************************************************************************)
(* The availability check of the LLM interface                             *)
(***************************************************************************)
IsAvailable ==
    /\ op = "idle"
    /\ UNCHANGED componentVars
    /\ \E o \in BackendOutcomes :
        \E r \in {is_available(client, o)} :
            /\ ret' = PyBool(r.value)
            /\ trace' = [probes |-> r.probes,
                         backend |-> IF r.probes = 0
                                     THEN [kind |-> "not called"] ELSE o]
    /\ op' = "is_available"
    /\ args' = EmptyDict
    /\ UNCHANGED <<documents, chunks, is_initialized, client, total_requests,
                   current_collection, db, ready>>

NextLLMAvailability == IsAvailable \/ LLMGenerateResponse \/ Consume

SpecLLMAvailability == Init /\ [][NextLLMAvailability]_vars

(***************************************************************************)
(* Properties                                                              *)
(***************************************************************************)
ResponseKeys == {"answer", "sources", "confidence"}

\* C1: answer_question never propagates an exception to its caller: in every
\* pipeline state, and whatever the embedding model, the index and the
\* backend do, the call returns a response dictionary.
C1_AnswerNeverRaises ==
    op = "answer_question" =>
        /\ ~trace.raised
        /\ ResponseKeys \subseteq DOMAIN ret

\* An answered query whose embedding raised.
C1_Witness ==
    /\ op = "answer_question"
    /\ trace.embed_raised
    /\ ResponseKeys \subseteq DOMAIN ret

StageFailed ==
    trace.embed_raised \/ trace.search_failed \/ trace.llm_exhausted

\* C2: whenever a stage of one query fails inside answer_question (the query
\* embedding raises, the index search fails, the backend fails on every
\* attempt), the response carries an 'error' field and confidence 0.0.
C2_StageFailureCarriesError ==
    (op = "answer_question" /\ StageFailed) =>
        /\ "error" \in DOMAIN ret
        /\ ret.confidence = Zero

PopulationFailed ==
    trace.embed_raised \/ trace.created = "False" \/ trace.added = "False"

\* C3: if embedding the chunks or populating the index fails during
\* initialize_vector_database (create_collection or add_documents reporting
\* failure included), the call returns False and does not make the pipeline
\* initialized.
C3_FailedInitializeReported ==
    [][(op' = "initialize_vector_database" /\ PopulationFailed')
          => (ret' = FALSE /\ is_initialized' = is_initialized)]_vars

\* C4: as long as initialize_vector_database has not returned True,
\* answer_question calls neither the embedding model, nor the index, nor the
\* backend, and returns the fixed no-information answer with empty sources
\* and confidence 0.0.
C4_NotServedBeforeReady ==
    (op = "answer_question" /\ ~ready) =>
        /\ trace.embed_calls = 0
        /\ trace.index_calls = 0
        /\ trace.llm_calls = 0
        /\ ret.answer = Str(<<NoInfoAnswer>>)
        /\ ret.sources = <<>>
        /\ ret.confidence = Zero

\* A query answered with the corpus loaded but the index not built.
C4_Witness ==
    /\ op = "answer_question"
    /\ ~ready
    /\ chunks # <<>>
    /\ ret.answer = Str(<<NoInfoAnswer>>)

\* C5: if threshold filtering leaves zero passages, the response has empty
\* sources, confidence 0.0 and the fixed no-information answer, and the
\* backend is not invoked for that query.
C5_NoContextNoGeneration ==
    (op = "answer_question" /\ trace.relevant = <<>>) =>
        /\ ret.sources = <<>>
        /\ ret.confidence = Zero
        /\ ret.answer = Str(<<NoInfoAnswer>>)
        /\ trace.llm_calls = 0

\* A query whose search results were all filtered out, with a backend.
C5_Witness ==
    /\ op = "answer_question"
    /\ client = "Groq"
    /\ trace.results # <<>>
    /\ trace.relevant = <<>>
    /\ ret.sources = <<>>

\* result.get('similarity', 0), as the claims read it
SimilarityOrZero(result) ==
    IF "similarity" \in DOMAIN result THEN result.similarity ELSE 0

\* the positions of results whose similarity is not below the threshold
KeptPositions(results, threshold) ==
    {i \in 1..Len(results) : ~(SimilarityOrZero(results[i]) < threshold)}

\* the n-th smallest element of a set of positions
NthPosition(P, n) == CHOOSE k \in P : Cardinality({j \in P : j <= k}) = n

\* C6: search_relevant_context retains exactly the search results whose
\* similarity is not below the threshold, a missing similarity counting as
\* 0, in the rank order the index returned.
C6_ThresholdFilter ==
    op = "search_relevant_context" =>
        LET kept == KeptPositions(trace.results, args.similarity_threshold)
        IN /\ Len(ret) = Cardinality(kept)
           /\ \A n \in 1..Len(ret) :
                 ret[n] = trace.results[NthPosition(kept, n)]

\* Similarities [0.05, 0.3, 0.6] with threshold 0.1 retain [0.3, 0.6].
C6_Witness ==
    /\ op = "search_relevant_context"
    /\ args.similarity_threshold = 10
    /\ Len(trace.results) = 3
    /\ \A i \in 1..3 : "similarity" \in DOMAIN trace.results[i]
    /\ [i \in 1..3 |-> trace.results[i].similarity] = <<5, 30, 60>>
    /\ Len(ret) = 2
    /\ [i \in 1..2 |-> ret[i].similarity] = <<30, 60>>

\* the citation the claims expect for one surviving passage
Citation(passage) ==
    [url |-> IF "url" \in DOMAIN passage.metadata
             THEN passage.metadata.url ELSE "",
     source_file |-> IF "source_file" \in DOMAIN passage.metadata
                     THEN passage.metadata.source_file ELSE "",
     similarity |-> passage.similarity]

RECURSIVE TotalSimilarity(_, _)
TotalSimilarity(passages, n) ==
    IF n = 0 THEN 0 ELSE passages[n].similarity + TotalSimilarity(passages, n - 1)

\* C7: when at least one passage survives filtering, the response has one
\* citation (url, source_file, similarity) per surviving passage in the
\* same order, chunks_used is their number, and confidence is the
\* arithmetic mean of their similarities.
C7_CitationsAndConfidence ==
    (op = "answer_question" /\ trace.relevant # <<>>) =>
        LET passages == trace.relevant
            n == Len(passages)
        IN /\ Len(ret.sources) = n
           /\ \A i \in 1..n : ret.sources[i] = Citation(passages[i])
           /\ ret.chunks_used = n
           /\ ret.confidence[2] > 0
           /\ ret.confidence[1] * n
                = TotalSimilarity(passages, n) * ret.confidence[2]

\* A query answered from two passages of different similarity.
C7_Witness ==
    /\ op = "answer_question"
    /\ Len(trace.relevant) = 2
    /\ trace.relevant[1].similarity < trace.relevant[2].similarity
    /\ Len(ret.sources) = 2
    /\ ret.chunks_used = 2

\* C8: every response of answer_question holds the answer text, the sources,
\* the confidence, the chunks-used count and the pipeline metadata (query,
\* timestamp, total_documents, total_chunks).
C8_ResponseWellFormed ==
    op = "answer_question" =>
        {"answer", "sources", "confidence", "chunks_used", "query",
         "timestamp", "total_documents", "total_chunks"} \subseteq DOMAIN ret

\* the corpus source is missing or malformed
Malformed(file) ==
    \/ file.kind # "record"
    \/ ~({"documents", "chunks"} \subseteq DOMAIN file.data)

\* C9: if the corpus source is missing or malformed (absent, unparseable,
\* not a record, or a record lacking the documents/chunks arrays),
\* load_full_dataset returns False and leaves documents, chunks and
\* is_initialized as they were.
C9_MalformedCorpusRejected ==
    [][(op' = "load_full_dataset" /\ Malformed(args'.file))
          => /\ ret' = FALSE
             /\ documents' = documents
             /\ chunks' = chunks
             /\ is_initialized' = is_initialized]_vars

\* C10: with a client configured and the backend raising on every attempt,
\* LLMInterface.generate_response returns a non-empty fallback string and
\* has called the backend max_retries times.
C10_FallbackAfterRetries ==
    (/\ op = "LLMInterface.generate_response"
     /\ client = "Groq"
     /\ trace.calls > 0
     /\ \A i \in 1..trace.calls : trace.outcomes[i] = "raise") =>
        /\ ret \in FallbackTexts
        /\ \A i \in 1..Len(ret.s) : ret.s[i] # ""
        /\ Len(ret.s) > 0
        /\ trace.calls = args.max_retries

\* Three raising attempts of a fire question end in the fire fallback.
C10_Witness ==
    /\ op = "LLMInterface.generate_response"
    /\ client = "Groq"
    /\ args.max_retries = max_retries_default
    /\ trace.calls = max_retries_default
    /\ \A i \in 1..trace.calls : trace.outcomes[i] = "raise"
    /\ args.query = Q_fire
    /\ ret = Str(<<Apology, fallback_responses[4].response>>)
    /\ trace.sleeps = <<1, 2>>

\* the waits of a call that made n attempts: 1, 2, 4, ... between them
BackoffWaits(n) == [i \in 1..(IF n > 0 THEN n - 1 ELSE 0) |-> 2 ^ (i - 1)]

\* C11: one generate_response call makes no backend call without a client
\* and at most max_retries otherwise; it makes no call after the first
\* attempt that succeeded; a wait of 2^attempt seconds lies between
\* consecutive attempts and none follows the last; and the call returns.
C11_BoundedRetries ==
    /\ [](frame # NoFrame =>
            /\ frame.calls <= frame.max_retries
            /\ client = "None" => frame.calls = 0
            /\ \A i \in 1..(frame.calls - 1) : frame.outcomes[i] = "failed"
            /\ frame.completed > 0 => frame.pc = "return"
            /\ frame.pc \in {"for", "return"} =>
                  frame.sleeps = BackoffWaits(IF frame.pc = "for"
                                              THEN frame.calls + 1
                                              ELSE frame.calls))
    /\ (frame # NoFrame) ~> (op = "LLMInterface.generate_response")

\* Two failed attempts, then a successful one: waits of 1 and 2 seconds.
C11_Witness ==
    /\ op = "LLMInterface.generate_response"
    /\ client = "Groq"
    /\ trace.calls = 3
    /\ trace.outcomes = <<"failed", "failed", "success">>
    /\ trace.sleeps = <<1, 2>>
    /\ ret = Str(<<"Answer from context.">>)

\* two calls of generate_embeddings, one right after the other, on the same
\* manager with the same batch and caching enabled, both returning
TwoCachedCalls ==
    /\ op = "generate_embeddings" /\ op' = "generate_embeddings"
    /\ model' = model
    /\ args.use_cache /\ args' = args
    /\ ~trace.raised /\ ~trace'.raised

C13_HitOnlyForExactBatch ==
    (op = "generate_embeddings" /\ trace.hit) =>
        /\ Len(ret) = Len(args.texts)
        /\ \A i \in 1..Len(ret) : ret[i].text = args.texts[i]

\* C14: a cache entry whose stored model identity or stored vector
\* dimension differs from the current model's is never returned as a hit.
C14_ModelMismatchIsMiss ==
    (op = "generate_embeddings" /\ trace.hit) =>
        LET stored == Unpickle(cache[_generate_cache_key(args.texts, model)]).data
        IN /\ stored.model_name = model.model_name
           /\ stored.embedding_dimension = model.embedding_dimension

\* C15: whatever the interleaving of the generate_embeddings calls on one
\* batch, every call that has returned returned the vectors of its batch,
\* and once all calls have returned the cache file is a complete entry
\* holding those vectors.
C15_ConcurrentCacheSafe ==
    /\ \A t \in DOMAIN frame :
          frame[t].pc = "done" => frame[t].value = Encode(frame[t].texts, model)
    /\ (\A t \in DOMAIN frame : frame[t].pc = "done") =>
          /\ SharedKey \in DOMAIN cache
          /\ ~Unpickle(cache[SharedKey]).raised
          /\ Unpickle(cache[SharedKey]).data.embeddings
                = Encode(SharedBatch, model)

LengthsDiffer(a) ==
    ~(a.n_ids = a.n_documents /\ a.n_documents = a.n_embeddings
      /\ a.n_embeddings = a.n_metadatas)

\* C16: when ids, documents, embeddings and metadatas do not all have the
\* same length, add_documents returns False and adds no record to the
\* collection.
C16_LengthMismatchRejected ==
    [][(op' = "add_documents" /\ LengthsDiffer(args'))
          => (ret' = PyBool(FALSE) /\ db' = db)]_vars

\* Three ids with four embeddings offered to a selected collection.
C16_Witness ==
    /\ op = "add_documents"
    /\ current_collection # "None"
    /\ args.n_ids = 3 /\ args.n_documents = 3 /\ args.n_embeddings = 4
    /\ ret = PyBool(FALSE)
    /\ trace.written = <<>>

\* C17: when a batch insert fails part-way through add_documents, the
\* records of the batches written before it are in the collection and the
\* caller is told of the failure together with the number of records that
\* succeeded before it.
C17_PartialFailureReported ==
    (op = "add_documents" /\ trace.failed_batch > 1) =>
        /\ Range(trace.written) \subseteq db[current_collection]
        /\ Len(trace.written) = (trace.failed_batch - 1) * batch_size
        /\ ret.v = FALSE
        /\ "succeeded" \in DOMAIN ret
        /\ ret.succeeded = Len(trace.written)

\* the index returned its neighbours nearest first, each with its distance
NearestFirst(results) ==
    /\ \A i \in 1..Len(results) : "distance" \in DOMAIN results[i]
    /\ \A i \in 1..(Len(results) - 1) :
          results[i].distance <= results[i + 1].distance

\* C18: for each of the metrics cosine, l2 and ip, when the index returns
\* its neighbours in order of increasing distance, search returns at most
\* top_k results and their similarity values never increase down the list.
C18_SearchDescendingSimilarity ==
    (op = "search" /\ NearestFirst(ret)) =>
        /\ Len(ret) <= args.top_k
        /\ \A i \in 1..(Len(ret) - 1) :
              ret[i].similarity >= ret[i + 1].similarity

(***************************************************************************)
(* Chunker properties                                                      *)
(***************************************************************************)
\* C19: every chunk create_chunks emits is one of the passages split_text
\* returned, unpadded, with a length of at least min_chunk_length and at
\* most chunk_size plus the sentence window; a passage below the minimum is
\* not emitted.
C19_ChunkLengthWithinBounds ==
    op = "create_chunks" =>
        /\ \A i \in 1..Len(ret.v) :
            /\ ret.v[i].chunk_index + 1 \in 1..Len(trace.text_chunks)
            /\ ret.v[i].content = trace.text_chunks[ret.v[i].chunk_index + 1]
            /\ ret.v[i].content_length = Len(ret.v[i].content)
            /\ ret.v[i].content_length >= splitter.min_chunk_length
            /\ ret.v[i].content_length <= splitter.chunk_size + SnapWindow
        /\ \A j \in 1..Len(trace.text_chunks) :
            Len(trace.text_chunks[j]) < splitter.min_chunk_length
                => \A i \in 1..Len(ret.v) : ret.v[i].chunk_index # j - 1

\* a document of which one passage is emitted and another is discarded
C19_Witness ==
    /\ op = "create_chunks"
    /\ Len(ret.v) >= 1
    /\ \E j \in 1..Len(trace.text_chunks) :
        Len(trace.text_chunks[j]) < splitter.min_chunk_length

\* the positions p of the text such that the first i chunks, each with the
\* region it shares with its predecessor removed, concatenate to text[0:p]
RECURSIVE RebuildEnds(_, _, _)
RebuildEnds(cs, i, text) ==
    IF i = 0 THEN {0}
    ELSE {p - k + Len(cs[i]) :
            <<p, k>> \in
              {pk \in RebuildEnds(cs, i - 1, text) \X (0..Len(cs[i])) :
                 /\ pk[2] <= (IF i = 1 THEN 0 ELSE Len(cs[i - 1]))
                 /\ pk[1] - pk[2] + Len(cs[i]) <= Len(text)
                 /\ SubSeq(text, pk[1] - pk[2] + 1,
                           pk[1] - pk[2] + Len(cs[i])) = cs[i]}}

Reconstructs(cs, text) == Len(text) \in RebuildEnds(cs, Len(cs), text)

\* C20: the chunks split_text returns for a cleaned text, each without the
\* region it shares with its predecessor, concatenate to the text.
C20_ChunksCoverText ==
    (op = "split_text" /\ clean_text(Str(args.text)) = args.text)
        => Reconstructs(ret.v, args.text)

LastChars(t, n) == SubSeq(t, Len(t) - n + 1, Len(t))
FirstChars(t, n) == SubSeq(t, 1, n)

\* C21: with the default splitter and a cleaned text, whenever the end of
\* chunk i was not moved to a sentence end, the last chunk_overlap
\* characters of chunk i are the first chunk_overlap characters of chunk
\* i + 1.
C21_AdjacentChunksOverlap ==
    (/\ op = "split_text"
     /\ splitter = DefaultSplitter
     /\ clean_text(Str(args.text)) = args.text)
        => \A i \in 1..(Len(ret.v) - 1) :
              ~trace.slices[i].snapped =>
                  /\ Len(ret.v[i]) >= splitter.chunk_overlap
                  /\ Len(ret.v[i + 1]) >= splitter.chunk_overlap
                  /\ LastChars(ret.v[i], splitter.chunk_overlap)
                        = FirstChars(ret.v[i + 1], splitter.chunk_overlap)

\* C22: split_text on a non-empty text of at most chunk_size characters
\* returns the one-element list holding the text itself.
C22_ShortTextOneChunk ==
    (/\ op = "split_text"
     /\ Len(args.text) >= 1
     /\ Len(args.text) <= splitter.chunk_size)
        => ret.v = <<args.text>>

\* a text of exactly chunk_size characters that begins with a space
C22_Witness ==
    /\ op = "split_text"
    /\ Len(args.text) = splitter.chunk_size
    /\ args.text[1] = " "
    /\ ret.v = <<args.text>>

IsSubstring(c, text) ==
    \E a \in 0..(Len(text) - Len(c)) : SubSeq(text, a + 1, a + Len(c)) = c

\* C23: every element split_text returns is a non-empty substring of the
\* text, and the empty text gives the empty list.
C23_NonEmptySubstrings ==
    op = "split_text" =>
        /\ \A i \in 1..Len(ret.v) :
              ret.v[i] # <<>> /\ IsSubstring(ret.v[i], args.text)
        /\ args.text = <<>> => ret.v = <<>>

\* C24: create_chunks with the default configuration, on a corpus of one
\* document whose cleaned content is non-empty and at most chunk_size long,
\* returns exactly one chunk, whose content is that text.
C24_ShortDocumentOneChunk ==
    (/\ op = "create_chunks"
     /\ splitter = DefaultSplitter
     /\ "cleaned_content" \in DOMAIN trace
     /\ Len(trace.cleaned_content) >= 1
     /\ Len(trace.cleaned_content) <= splitter.chunk_size)
        => /\ Len(ret.v) = 1
           /\ ret.v[1].content = trace.cleaned_content

\* C25: the chunk_index values of the chunks create_chunks returns for a
\* document are 0, 1, ..., k - 1 in this order.
C25_ChunkIndexContiguous ==
    op = "create_chunks" =>
        \A i \in 1..Len(ret.v) : ret.v[i].chunk_index = i - 1

\* the documents of a corpus that are data errors: create_chunks raises on
\* them, or their cleaned content is below min_chunk_length
ChunkingErrors(docs) ==
    {k \in 1..Len(docs) :
        \/ "content" \notin DOMAIN docs[k]
        \/ Len(clean_text(docs[k].content)) < splitter.min_chunk_length}

ChunksOfDocument(all_chunks, doc_idx) ==
    LET Mine(c) == c.document_id = doc_idx
    IN  SelectSeq(all_chunks, Mine)

\* C26: every data error of an ingestion is skipped and counted once in
\* processing_errors, and the other records are still processed: a file
\* that fails to parse, in load_raw_documents; a document that raises or
\* whose cleaned content is below the minimum, in create_chunks.
C26_DataErrorsCountedAndSkipped ==
    /\ op = "load_raw_documents" =>
        /\ trace.processing_stats.processing_errors =
              Cardinality({k \in 1..Len(args.json_files) :
                              ~args.json_files[k].parsed})
        /\ Len(ret.v) =
              Cardinality({k \in 1..Len(args.json_files) :
                              /\ args.json_files[k].parsed
                              /\ _validate_document(
                                    args.json_files[k].doc_data)})
    /\ (op = "create_chunks" /\ "documents" \in DOMAIN args) =>
        /\ trace.processing_stats.processing_errors =
              Cardinality(ChunkingErrors(args.documents))
        /\ \A k \in 1..Len(args.documents) :
              IF k \in ChunkingErrors(args.documents)
              THEN ChunksOfDocument(ret.v, k - 1) = <<>>
              ELSE Len(ChunksOfDocument(ret.v, k - 1)) >= 1

\* the situation of the backend: no client, a call that raises, or a call
\* that returns a completion
Situation(cl, o) ==
    IF cl = "None" THEN "unconfigured"
    ELSE IF o.kind = "raise" THEN "configured but erroring"
    ELSE "configured and reachable"

\* C27: the result of is_available tells the three situations apart (in any
\* other situation the result is another one), and without a client no
\* probe call is made.
C27_AvailabilityDistinguishesSituations ==
    op = "is_available" =>
        /\ \A cl \in {"Groq", "None"}, o \in BackendOutcomes :
              Situation(cl, o) # Situation(client, trace.backend)
                  => PyBool(is_available(cl, o).value) # ret
        /\ client = "None" => trace.probes = 0

\* one iteration of the while loop of split_text has run
LoopIteration == frame # NoFrame /\ frame.pc = "while"

\* C28: every iteration of the loop of split_text moves start forward and
\* the loop is left exactly when the chunk just cut ends at the end of the
\* text; a call that has entered the loop returns.
C28_SplitTextTerminates ==
    /\ [][LoopIteration =>
            /\ frame'.start > frame.start
            /\ frame'.pc = "return"
                  <=> frame'.start + splitter.chunk_overlap
                        = Len(frame.text)]_frame
    /\ (frame # NoFrame) ~> (frame = NoFrame)

\* C29: LLMInterface.generate_response returns a str, whatever max_retries
\* is, with or without a client, and however the backend behaves.
C29_GenerateResponseReturnsStr ==
    op = "LLMInterface.generate_response" => IsStr(ret)

\* the pipeline's chunk list is the content of the index queries search
ChunksAreIndexed ==
    /\ chunks # <<>>
    /\ \A i \in 1..Len(chunks) : "id" \in DOMAIN chunks[i]
    /\ StoredIds = {chunks[i].id : i \in 1..Len(chunks)}

\* C30: whenever is_initialized is True, chunks is non-empty and is the list
\* whose ids were written to the index; is_initialized becomes True only in
\* an initialize_vector_database call made with chunks loaded.
C30_InitializedMeansIndexed ==
    /\ [](is_initialized => ChunksAreIndexed)
    /\ [][(is_initialized' /\ ~is_initialized)
            => (op' = "initialize_vector_database" /\ chunks # <<>>)]_vars

====
